---------------------------- MODULE Spec2Model ----------------------------
(***************************************************************************)
(* Model of the publishing-pipeline health monitor                         *)
(* (src/pipeline_monitor.py, class PipelineHealthMonitor) and of the       *)
(* request handlers of src/api.py that drive it.                           *)
(*                                                                         *)
(* Concurrency is asyncio's: one event loop, coroutines run until their    *)
(* next await.  Every action below is one such run-to-suspension section   *)
(* of a coroutine, or one synchronous section of the monitor loop; while   *)
(* the monitor loop is inside a synchronous section (Running) no other     *)
(* coroutine is scheduled.                                                 *)
(***************************************************************************)
EXTENDS Integers, Sequences, FiniteSets, Bags, TLC

VARIABLES
    component_status,       \* self.component_status: component -> status
    recent_checks,          \* self.recent_checks: list of HealthCheck
    recovery_attempts,      \* self.recovery_attempts: list of RecoveryAttempt
    total_checks,           \* self.total_checks
    failed_checks,          \* self.failed_checks
    successful_recoveries,  \* self.successful_recoveries
    failed_recoveries,      \* self.failed_recoveries
    monitoring,             \* self._monitoring
    loop_pc,                \* self._monitor_task and the place monitor_loop is at
    checks,                 \* monitor_loop's local `checks`
    idx,                    \* position of monitor_loop's `for check in checks`
    probing,                \* components whose probe, started by the loop's
                            \* perform_health_checks, has not finished yet
    cycle,                  \* number of perform_health_checks started by the loop;
                            \* the clock value stamped on the results of that cycle
    inflight,               \* bag of attempt_recovery calls started and not ended
    audit,                  \* number of audit-trail entries written, per kind
    alerts,                 \* the calls of self.alert_callback made so far, as
                            \* (component, status) pairs in call order
    returned,               \* value most recently returned by attempt_recovery
    status_reply,           \* most recent result of get_pipeline_status
    check_reply,            \* most recent direct call of perform_health_checks:
                            \* what gather gave it and what it returned
    editor_message,         \* most recent result of get_editor_message
    history_reply,          \* the history request answered most recently and
                            \* its reply
    response                \* the reply to the manual recovery request answered
                            \* most recently

vars == <<component_status, recent_checks, recovery_attempts, total_checks,
          failed_checks, successful_recoveries, failed_recoveries, monitoring,
          loop_pc, checks, idx, probing, cycle, inflight, audit, alerts,
          returned,
          status_reply,
          check_reply, editor_message, history_reply, response>>

-----------------------------------------------------------------------------
(* Bounds of the model *)

\* monitor-loop cycles explored
MaxCycles == 2
\* probes that may report down within one cycle
MaxFailing == 1
\* recovery attempts, ended or in flight, up to which manual requests are issued
MaxRecoveries == 2
\* attempt_recovery calls made one after the other in SpecSingle
MaxCalls == 1
\* health-check audit entries up to which direct calls of
\* perform_health_checks are made in SpecForceCheck
MaxAudited == 6
\* all-healthy cycles already run in the initial state of SpecRetention
RetentionWarmup == 19
\* cycles already run in the initial states of SpecHistory
MaxHistory == 3
\* cycles already run in the initial states of SpecUptime
MaxCounted == 20
\* cycles already run in the initial states of SpecEvents
MaxEventCycles == 2
\* largest limit of a history request
MaxLimit == 6
\* cycles already run in the initial states of SpecMessage
MaxReported == 2
\* recovery attempts explored beyond the retention window in SpecRecoveryLog
MaxLogRuns == 2

-----------------------------------------------------------------------------
(* Enumerations *)

NETWORK == "network"
VALIDATION_SERVICE == "validation_service"
DATABASE == "database"
STORAGE == "storage"
QUEUE == "queue"

\* class PipelineComponent, in declaration order
ComponentOrder == <<NETWORK, VALIDATION_SERVICE, DATABASE, STORAGE, QUEUE>>
PipelineComponent == {ComponentOrder[i] : i \in 1..Len(ComponentOrder)}

HEALTHY == "healthy"
DEGRADED == "degraded"
DOWN == "down"
RECOVERING == "recovering"
HealthStatus == {HEALTHY, DEGRADED, DOWN, RECOVERING}

RECONNECT == "reconnect"
RESTART_SERVICE == "restart_service"
CLEAR_QUEUE == "clear_queue"
FAILOVER == "failover"
MANUAL_INTERVENTION == "manual_intervention"

\* retention window of the recent-checks log: self.recent_checks[-100:]
RecentChecksKept == 100

\* a value recovery_map has no entry for, as a member added to
\* PipelineComponent and not to the map would be
Unmapped == "unmapped"

\* a request path segment that names no component
BadName == "cache"
RequestNames == PipelineComponent \cup {BadName}

NoAttempt == [component |-> "none", action |-> "none", success |-> FALSE,
              error_message |-> "none"]

-----------------------------------------------------------------------------
(* Helpers over lists *)

\* Python's xs[-n:] for n > 0: the last n elements, or all of xs if shorter
LastN(xs, n) ==
    IF Len(xs) <= n THEN xs ELSE SubSeq(xs, Len(xs) - n + 1, Len(xs))

\* the slice taken from the wrong end: xs[:100]
KeepOldest(xs) ==
    IF Len(xs) <= RecentChecksKept THEN xs ELSE SubSeq(xs, 1, RecentChecksKept)

\* self.recent_checks = self.recent_checks[-100:]
KeepRecent(xs) == LastN(xs, RecentChecksKept)

\* number of in-flight attempt_recovery calls for component c
InFlightFor(c) ==
    LET S == {a \in BagToSet(inflight) : a.component = c}
        RECURSIVE Sum(_)
        Sum(T) == IF T = {} THEN 0
                  ELSE LET a == CHOOSE x \in T : TRUE
                       IN  CopiesIn(a, inflight) + Sum(T \ {a})
    IN  Sum(S)

One(a) == SetToBag({a})

-----------------------------------------------------------------------------
(* Pure functions of the monitor *)

\* the policy that has only the network recover on its own
NetworkOnlyRecoverable(component) == component = NETWORK

\* every component taken to be auto-recoverable
AlwaysRecoverable(component) == TRUE

\* _is_auto_recoverable
IsAutoRecoverable(component) == component /= VALIDATION_SERVICE

\* the map with failover for the queue as well
RecoveryActionFailover(component) ==
    CASE component = NETWORK            -> RECONNECT
      [] component = VALIDATION_SERVICE -> RESTART_SERVICE
      [] component = DATABASE           -> RECONNECT
      [] component = STORAGE            -> FAILOVER
      [] component = QUEUE              -> FAILOVER
      [] OTHER                          -> MANUAL_INTERVENTION

\* recovery_map.get(component, MANUAL_INTERVENTION) in attempt_recovery
RecoveryActionFor(component) ==
    CASE component = NETWORK            -> RECONNECT
      [] component = VALIDATION_SERVICE -> RESTART_SERVICE
      [] component = DATABASE           -> RECONNECT
      [] component = STORAGE            -> FAILOVER
      [] component = QUEUE              -> CLEAR_QUEUE
      [] OTHER                          -> MANUAL_INTERVENTION

\* the elif branches for DEGRADED and RECOVERING in the other order
OverallStatusRecoveringFirst(statuses) ==
    IF \E c \in PipelineComponent : statuses[c] = DOWN THEN DOWN
    ELSE IF \E c \in PipelineComponent : statuses[c] = RECOVERING THEN RECOVERING
    ELSE IF \E c \in PipelineComponent : statuses[c] = DEGRADED THEN DEGRADED
    ELSE HEALTHY

\* get_pipeline_status: the overall status, by the if/elif chain
OverallStatus(statuses) ==
    IF \E c \in PipelineComponent : statuses[c] = DOWN THEN DOWN
    ELSE IF \E c \in PipelineComponent : statuses[c] = DEGRADED THEN DEGRADED
    ELSE IF \E c \in PipelineComponent : statuses[c] = RECOVERING THEN RECOVERING
    ELSE HEALTHY

\* the flag computed from the components that are down only
DownAutoRecoverable(statuses) ==
    \A c \in PipelineComponent : statuses[c] = DOWN => IsAutoRecoverable(c)

\* get_pipeline_status: is_auto_recoverable
AllAutoRecoverable(statuses) ==
    \A c \in PipelineComponent : statuses[c] /= HEALTHY => IsAutoRecoverable(c)

\* one probe's HealthCheck; the built-in probes return HEALTHY, with no
\* error message, or DOWN, with the message of the exception they caught
HealthCheck(component, status, timestamp) ==
    [component |-> component, status |-> status, timestamp |-> timestamp,
     error_message |-> IF status = HEALTHY THEN "none" ELSE "error"]

\* get_pipeline_status: the entries of the log looked at for recent_failures,
\* self.recent_checks[-10:]
RecentFailuresWindow == 10

\* one entry of recent_failures
FailureOf(check) ==
    [component |-> check.component, timestamp |-> check.timestamp,
     error |-> check.error_message]

IsFailure(check) == check.status /= HEALTHY

\* get_pipeline_status: recent_failures, the entries that are not healthy
\* among the last ten of the log
RecentFailures(log) ==
    LET failed == SelectSeq(LastN(log, RecentFailuresWindow), IsFailure)
    IN  [i \in 1..Len(failed) |-> FailureOf(failed[i])]

\* get_pipeline_status: uptime, the quotient (total - failed) / total of two
\* integers times 100, kept as the fraction num / den; 100 with no checks
\* the share of the checks that failed
Downtime(total, failed) ==
    IF total > 0 THEN [num |-> failed * 100, den |-> total]
    ELSE [num |-> 100, den |-> 1]

Uptime(total, failed) ==
    IF total > 0 THEN [num |-> (total - failed) * 100, den |-> total]
    ELSE [num |-> 100, den |-> 1]

\* _generate_suggested_actions: the line for a component that is down
SuggestionFor(component) ==
    CASE component = NETWORK            -> "network is down"
      [] component = VALIDATION_SERVICE -> "validation service crashed"
      [] component = DATABASE           -> "database connection lost"
      [] component = STORAGE            -> "storage unavailable"
      [] component = QUEUE              -> "message queue down"

AllOperational == "all systems operational"

\* _generate_suggested_actions: a line for each component that is down, in
\* the order of the status map, or the one line that all is well
\* a line for every component that is not healthy, down or not
SuggestedActionsUnhealthy(statuses) ==
    LET IsUnhealthy(c) == statuses[c] /= HEALTHY
        unhealthy == SelectSeq(ComponentOrder, IsUnhealthy)
    IN  IF unhealthy = <<>> THEN <<AllOperational>>
        ELSE [i \in 1..Len(unhealthy) |-> SuggestionFor(unhealthy[i])]

SuggestedActions(statuses) ==
    LET IsDown(c) == statuses[c] = DOWN
        down == SelectSeq(ComponentOrder, IsDown)
    IN  IF down = <<>> THEN <<AllOperational>>
        ELSE [i \in 1..Len(down) |-> SuggestionFor(down[i])]

\* the PipelineStatus record built by get_pipeline_status
PipelineStatusOf(statuses) ==
    [overall_status      |-> OverallStatus(statuses),
     components          |-> statuses,
     uptime_percentage   |-> Uptime(total_checks, failed_checks),
     recent_failures     |-> RecentFailures(recent_checks),
     suggested_actions   |-> SuggestedActions(statuses),
     is_auto_recoverable |-> AllAutoRecoverable(statuses)]

NoStatus == [overall_status |-> "none",
             components |-> [c \in PipelineComponent |-> "none"],
             uptime_percentage |-> [num |-> 0, den |-> 1],
             recent_failures |-> <<>>,
             suggested_actions |-> <<>>,
             is_auto_recoverable |-> FALSE]

\* the headline of each of the three messages
OPERATIONAL == "operational"
RECOVERING_NOTICE == "recovering"
INCIDENT == "down"

AutomaticRecovery == "automatic recovery in progress"
ManualIntervention == "manual intervention required"

RecentFailuresShown == 3

\* "{:.2f}".format(uptime): the number of hundredths nearest to the value
Hundredths(q) == (2 * 100 * q.num + q.den) \div (2 * q.den)

\* "- {comp}: {stat}" for the components of the status that are not healthy
IssuesOf(status) ==
    LET NotHealthy(c) == status.components[c] /= HEALTHY
        issues == SelectSeq(ComponentOrder, NotHealthy)
    IN  [i \in 1..Len(issues) |->
            [component |-> issues[i], status |-> status.components[issues[i]]]]

\* every recent failure of the status, however many
AllFailuresShown(status) ==
    [i \in 1..Len(status.recent_failures) |->
        [component |-> status.recent_failures[i].component,
         error     |-> status.recent_failures[i].error]]

\* "- {f['component']}: {f['error']}" for status.recent_failures[-3:]
FailuresShown(status) ==
    LET shown == LastN(status.recent_failures, RecentFailuresShown)
    IN  [i \in 1..Len(shown) |->
            [component |-> shown[i].component, error |-> shown[i].error]]

\* the incident report kept for an overall status of down, every other
\* status that is not healthy given the recovering notice
EditorMessageDownOnly(status) ==
    IF status.overall_status = HEALTHY
    THEN [headline        |-> OPERATIONAL,
          uptime          |-> Hundredths(status.uptime_percentage),
          actions         |-> <<>>,
          issues          |-> <<>>,
          next_steps      |-> "none",
          recent_failures |-> <<>>]
    ELSE IF status.overall_status /= DOWN
    THEN [headline        |-> RECOVERING_NOTICE,
          uptime          |-> 0,
          actions         |-> status.suggested_actions,
          issues          |-> <<>>,
          next_steps      |-> "none",
          recent_failures |-> <<>>]
    ELSE [headline        |-> INCIDENT,
          uptime          |-> 0,
          actions         |-> <<>>,
          issues          |-> IssuesOf(status),
          next_steps      |-> IF status.is_auto_recoverable
                              THEN AutomaticRecovery ELSE ManualIntervention,
          recent_failures |-> FailuresShown(status)]

\* the parts get_editor_message fills its three templates with; the time of
\* the last check, which is the time of the call, is left out
EditorMessageOf(status) ==
    IF status.overall_status = HEALTHY
    THEN [headline        |-> OPERATIONAL,
          uptime          |-> Hundredths(status.uptime_percentage),
          actions         |-> <<>>,
          issues          |-> <<>>,
          next_steps      |-> "none",
          recent_failures |-> <<>>]
    ELSE IF status.overall_status = RECOVERING
    THEN [headline        |-> RECOVERING_NOTICE,
          uptime          |-> 0,
          actions         |-> status.suggested_actions,
          issues          |-> <<>>,
          next_steps      |-> "none",
          recent_failures |-> <<>>]
    ELSE [headline        |-> INCIDENT,
          uptime          |-> 0,
          actions         |-> <<>>,
          issues          |-> IssuesOf(status),
          next_steps      |-> IF status.is_auto_recoverable
                              THEN AutomaticRecovery ELSE ManualIntervention,
          recent_failures |-> FailuresShown(status)]

NoMessage == [headline |-> "none", uptime |-> 0, actions |-> <<>>,
              issues |-> <<>>, next_steps |-> "none", recent_failures |-> <<>>]

\* no history request has been answered
NoHistory == [limit |-> 0, events |-> <<>>, total_events |-> 0]

\* the list asyncio.gather returns in perform_health_checks: one result per
\* probe, in the order the probes are listed, those of `failing` being DOWN
GatherResults(failing, timestamp) ==
    [i \in 1..Len(ComponentOrder) |->
        HealthCheck(ComponentOrder[i],
                    IF ComponentOrder[i] \in failing THEN DOWN ELSE HEALTHY,
                    timestamp)]

\* what an awaited probe coroutine does: it returns a HealthCheck of either
\* status or, when the probe has been replaced by one that does not catch,
\* it raises
Raises == "raises"
ProbeOutcome == {HEALTHY, DOWN, Raises}

\* the exception asyncio.gather(..., return_exceptions=True) puts in the place
\* of the result of a probe that raised
ProbeException(component) == [exception |-> component]

\* isinstance(check, HealthCheck)
IsHealthCheck(check) == "status" \in DOMAIN check

\* the list asyncio.gather returns once all five probes are done, in the order
\* the probes are listed
Gathered(outcome, timestamp) ==
    [i \in 1..Len(ComponentOrder) |->
        LET c == ComponentOrder[i] IN
        IF outcome[c] = Raises THEN ProbeException(c)
        ELSE HealthCheck(c, outcome[c], timestamp)]

\* the gathered list returned as it is
Unfiltered(gathered) == gathered

\* perform_health_checks: `results`, the HealthCheck instances of the list
HealthChecksOf(gathered) == SelectSeq(gathered, IsHealthCheck)

\* the probes that report DOWN in the cycles explored: one of a component
\* that is auto-recoverable and the one of validation-service, which is not
FailingProbes == {NETWORK, VALIDATION_SERVICE}

\* the sets of probes that may report DOWN in one cycle
FailingSets == {F \in SUBSET FailingProbes : Cardinality(F) <= MaxFailing}

\* the RecoveryAttempt record built by attempt_recovery
RecoveryAttempt(component, success) ==
    [component     |-> component,
     action        |-> RecoveryActionFor(component),
     success       |-> success,
     error_message |-> IF success THEN "none" ELSE "error"]

\* no manual recovery request has been answered
NoResponse == [code |-> 0, status |-> "none", component |-> "none",
               message |-> "none"]

\* no direct call of perform_health_checks has been made
NoChecks == [called |-> FALSE, gathered |-> <<>>, results |-> <<>>]

-----------------------------------------------------------------------------
(* Initial state: PipelineHealthMonitor.__init__ *)

NoAudit == [health_check |-> 0, failure_detected |-> 0, recovery_attempt |-> 0]

Init ==
    /\ component_status = [c \in PipelineComponent |-> HEALTHY]
    /\ recent_checks = <<>>
    /\ recovery_attempts = <<>>
    /\ total_checks = 0
    /\ failed_checks = 0
    /\ successful_recoveries = 0
    /\ failed_recoveries = 0
    /\ monitoring = FALSE
    /\ loop_pc = "none"
    /\ checks = <<>>
    /\ idx = 0
    /\ probing = {}
    /\ cycle = 0
    /\ inflight = EmptyBag
    /\ audit = NoAudit
    /\ alerts = <<>>
    /\ returned = NoAttempt
    /\ status_reply = NoStatus
    /\ check_reply = NoChecks
    /\ editor_message = NoMessage
    /\ history_reply = NoHistory
    /\ response = NoResponse

\* the monitor loop is inside a synchronous section: nothing else is scheduled
Running == loop_pc \in {"process", "dispatch"}

replies == <<status_reply, check_reply, editor_message, history_reply>>
counters == <<total_checks, failed_checks, successful_recoveries, failed_recoveries>>
logs == <<recent_checks, recovery_attempts>>
loopvars == <<loop_pc, checks, idx, cycle>>

-----------------------------------------------------------------------------
(* Replies of api.trigger_recovery *)

\* the HTTPException(status_code=400, ...) raised for a name that is no
\* component
InvalidComponent == [code |-> 400, detail |-> "invalid component"]

\* the handler's outer `except Exception as e`: whatever exception reaches it,
\* HTTPException included, is raised again as HTTPException(500, str(e))
InternalError(e) ==
    [code |-> 500, status |-> "error", component |-> "none",
     message |-> e.detail]

\* the reply returned for a component that is healthy
AlreadyHealthy(name) ==
    [code |-> 200, status |-> "success", component |-> name,
     message |-> "already healthy"]

\* the reply built from the RecoveryAttempt that attempt_recovery returned
RecoveryReply(attempt) ==
    [code |-> 200, status |-> IF attempt.success THEN "success" ELSE "failed",
     component |-> attempt.component, message |-> attempt.error_message]

-----------------------------------------------------------------------------
(* attempt_recovery *)

Attempt(component, origin, phase) ==
    [component |-> component, origin |-> origin, phase |-> phase]

\* the except branch leaving the status as the try body set it
StatusLeftRecovering(success) == IF success THEN HEALTHY ELSE RECOVERING

\* a failed attempt leaving a value that is no HealthStatus
StatusAfterRecoveryUnknown(success) == IF success THEN HEALTHY ELSE "failed"

\* status written when the attempt ends: HEALTHY after the try body,
\* DOWN in the except branch
StatusAfterRecovery(success) == IF success THEN HEALTHY ELSE DOWN

\* attempt_recovery up to its first await: the status becomes RECOVERING and
\* the recovery action is awaited
BeginAttempt(component, origin) ==
    /\ component_status' = [component_status EXCEPT ![component] = RECOVERING]
    /\ inflight' = inflight (+) One(Attempt(component, origin, "action"))

\* the end of an attempt writing its outcome to every component that is
\* recovering
EndAttemptAll(a, success) ==
    LET attempt == RecoveryAttempt(a.component, success) IN
    /\ component_status' =
          [c \in PipelineComponent |->
              IF c = a.component \/ component_status[c] = RECOVERING
              THEN StatusAfterRecovery(success) ELSE component_status[c]]
    /\ successful_recoveries' = successful_recoveries + (IF success THEN 1 ELSE 0)
    /\ failed_recoveries' = failed_recoveries + (IF success THEN 0 ELSE 1)
    /\ recovery_attempts' = Append(recovery_attempts, attempt)
    /\ audit' = [audit EXCEPT !.recovery_attempt = @ + 1]
    /\ returned' = attempt
    /\ inflight' = inflight (-) One(a)

\* the end of an attempt counting every attempt as a failed one as well
EndAttemptMiscounted(a, success) ==
    LET attempt == RecoveryAttempt(a.component, success) IN
    /\ component_status' =
          [component_status EXCEPT ![a.component] = StatusAfterRecovery(success)]
    /\ successful_recoveries' = successful_recoveries + (IF success THEN 1 ELSE 0)
    /\ failed_recoveries' = failed_recoveries + 1
    /\ recovery_attempts' = Append(recovery_attempts, attempt)
    /\ audit' = [audit EXCEPT !.recovery_attempt = @ + 1]
    /\ returned' = attempt
    /\ inflight' = inflight (-) One(a)

\* attempt_recovery from the end of its last await to its return: status,
\* counter, recovery log, audit entry, returned record
EndAttempt(a, success) ==
    LET attempt == RecoveryAttempt(a.component, success) IN
    /\ component_status' =
          [component_status EXCEPT ![a.component] = StatusAfterRecovery(success)]
    /\ successful_recoveries' = successful_recoveries + (IF success THEN 1 ELSE 0)
    /\ failed_recoveries' = failed_recoveries + (IF success THEN 0 ELSE 1)
    /\ recovery_attempts' = Append(recovery_attempts, attempt)
    /\ audit' = [audit EXCEPT !.recovery_attempt = @ + 1]
    /\ returned' = attempt
    /\ inflight' = inflight (-) One(a)

\* the record returned to a loop that is not resumed
ReturnToNobody(a) ==
    /\ UNCHANGED loopvars
    /\ IF a.origin = "manual"
       THEN response' = RecoveryReply(returned')
       ELSE UNCHANGED response

\* what the caller does with the returned record: monitor_loop goes on with
\* its next check; trigger_recovery builds its reply from the record; a
\* direct caller takes the record
ReturnTo(a) ==
    /\ IF a.origin = "loop"
       THEN /\ loop_pc' = "process"
            /\ idx' = idx + 1
            /\ UNCHANGED <<checks, cycle>>
       ELSE UNCHANGED loopvars
    /\ IF a.origin = "manual"
       THEN response' = RecoveryReply(returned')
       ELSE UNCHANGED response

\* the recovery action (_reconnect, _restart_service, _clear_queue, _failover)
\* returns: attempt_recovery goes on to its verification sleep
ActionReturns(a) ==
    /\ ~Running
    /\ BagIn(a, inflight)
    /\ a.phase = "action"
    /\ inflight' = (inflight (-) One(a)) (+) One([a EXCEPT !.phase = "verify"])
    /\ UNCHANGED <<component_status, counters, logs, monitoring, loopvars,
                   audit, returned, alerts, probing, replies, response>>

\* the recovery action raises: the except branch of attempt_recovery
ActionRaises(a) ==
    /\ ~Running
    /\ BagIn(a, inflight)
    /\ a.phase = "action"
    /\ EndAttempt(a, FALSE)
    /\ ReturnTo(a)
    /\ UNCHANGED <<recent_checks, total_checks, failed_checks, monitoring,
                   alerts, probing, replies>>

\* the verification sleep ends: the rest of the try body of attempt_recovery
VerifyDone(a) ==
    /\ ~Running
    /\ BagIn(a, inflight)
    /\ a.phase = "verify"
    /\ EndAttempt(a, TRUE)
    /\ ReturnTo(a)
    /\ UNCHANGED <<recent_checks, total_checks, failed_checks, monitoring,
                   alerts, probing, replies>>

-----------------------------------------------------------------------------
(* api.trigger_recovery, up to its first await *)

\* the handler without its "already healthy" check
TriggerRecoveryUnchecked(name, cap) ==
    /\ ~Running
    /\ IF name \notin PipelineComponent
       THEN /\ response' = InternalError(InvalidComponent)
            /\ UNCHANGED <<component_status, inflight>>
       ELSE /\ Len(recovery_attempts) + BagCardinality(inflight) < cap
            /\ BeginAttempt(name, "manual")
            /\ UNCHANGED response
    /\ UNCHANGED <<counters, logs, monitoring, loopvars, audit, returned,
                   alerts, probing, replies>>

TriggerRecovery(name, cap) ==
    /\ ~Running
    /\ IF name \notin PipelineComponent
       THEN \* PipelineComponent(component) raises ValueError, for which
            \* HTTPException(400) is raised inside the outer try
            /\ response' = InternalError(InvalidComponent)
            /\ UNCHANGED <<component_status, inflight>>
       ELSE IF component_status[name] = HEALTHY
       THEN \* "already healthy": answered without attempt_recovery
            /\ response' = AlreadyHealthy(name)
            /\ UNCHANGED <<component_status, inflight>>
       ELSE \* attempt_recovery is awaited; the reply follows its return
            /\ Len(recovery_attempts) + BagCardinality(inflight) < cap
            /\ BeginAttempt(name, "manual")
            /\ UNCHANGED response
    /\ UNCHANGED <<counters, logs, monitoring, loopvars, audit, returned,
                   alerts, probing, replies>>

-----------------------------------------------------------------------------
(* start_monitoring, stop_monitoring *)

\* start_monitoring without its `if not self._monitoring`
StartMonitoringUnguarded ==
    /\ ~Running
    /\ monitoring' = TRUE
    /\ loop_pc' = "start"
    /\ checks' = <<>>
    /\ idx' = 0
    /\ UNCHANGED <<component_status, counters, logs, cycle, inflight, audit,
                   returned, alerts, probing, replies, response>>

StartMonitoring ==
    /\ ~Running
    /\ IF ~monitoring
       THEN /\ monitoring' = TRUE
            /\ loop_pc' = "start"
            /\ checks' = <<>>
            /\ idx' = 0
       ELSE UNCHANGED <<monitoring, loop_pc, checks, idx>>
    /\ UNCHANGED <<component_status, counters, logs, cycle, inflight, audit,
                   returned, alerts, probing, replies, response>>

\* stop_monitoring without its self._monitor_task.cancel()
StopMonitoringUncancelled ==
    /\ ~Running
    /\ monitoring' = FALSE
    /\ UNCHANGED <<component_status, counters, logs, loopvars, probing,
                   inflight, audit, returned, alerts, replies, response>>

\* Task.cancel() raises CancelledError at the await the task is suspended in;
\* a gather that is cancelled cancels the probes it is waiting for.
\* CancelledError is no Exception, so neither attempt_recovery's nor
\* monitor_loop's `except Exception` catches it: the awaited attempt_recovery
\* is unwound with the loop.
StopMonitoring ==
    /\ ~Running
    /\ monitoring' = FALSE
    /\ IF loop_pc \in {"none", "cancelled"}
       THEN UNCHANGED <<loop_pc, checks, idx, inflight, probing>>
       ELSE /\ loop_pc' = "cancelled"
            /\ checks' = <<>>
            /\ idx' = 0
            /\ probing' = {}
            /\ inflight' =
                 [a \in {b \in BagToSet(inflight) : b.origin /= "loop"} |->
                     inflight[a]]
    /\ UNCHANGED <<component_status, counters, logs, cycle, audit, returned,
                    alerts, replies, response>>

-----------------------------------------------------------------------------
(* monitor_loop *)

\* the alert callback not called
NotAlerted(alerted, check) == alerted

\* self.alert_callback(check.component, check.status)
Alerted(alerted, check) == Append(alerted, <<check.component, check.status>>)

\* the results counted only when none of them failed
TotalAfterHealthyOnly(total, results) ==
    IF \E i \in 1..Len(results) : results[i].status /= HEALTHY
    THEN total ELSE total + Len(results)

\* self.total_checks += len(checks)
TotalAfter(total, results) == total + Len(results)

\* `while self._monitoring:` and the call of perform_health_checks, which
\* starts the five probes and awaits them
LoopIterate(cap) ==
    /\ loop_pc \in {"start", "sleep", "error_sleep"}
    /\ cycle < cap
    /\ IF monitoring
       THEN /\ loop_pc' = "gather"
            /\ cycle' = cycle + 1
            /\ probing' = PipelineComponent
       ELSE /\ loop_pc' = "finished"
            /\ UNCHANGED <<cycle, probing>>
    /\ UNCHANGED <<component_status, counters, logs, monitoring, checks, idx,
                   inflight, audit, returned, alerts, replies, response>>

\* one of the five probes gathered by the loop's perform_health_checks is
\* done; its result stays with gather until the others are done too
ProbeDone(component) ==
    /\ loop_pc = "gather"
    /\ component \in probing
    /\ probing' = probing \ {component}
    /\ UNCHANGED <<component_status, counters, logs, monitoring, loop_pc,
                   checks, idx, cycle, inflight, audit, returned, alerts,
                   replies, response>>

\* a gather that returns as soon as one probe is done
AnyDone(running) == running /= PipelineComponent

\* `await asyncio.gather(...)` returns once no probe is still running
AllDone(running) == running = {}

\* the probes have all returned: perform_health_checks logs each result and
\* returns; the loop counts and stores the results
LoopGathered(failing) ==
    /\ loop_pc = "gather"
    /\ AllDone(probing)
    /\ LET results == GatherResults(failing, cycle) IN
       /\ audit' = [audit EXCEPT !.health_check = @ + Len(results)]
       /\ total_checks' = TotalAfter(total_checks, results)
       /\ recent_checks' = KeepRecent(recent_checks \o results)
       /\ checks' = results
       /\ idx' = 1
       /\ loop_pc' = "process"
    /\ UNCHANGED <<component_status, recovery_attempts, failed_checks,
                   successful_recoveries, failed_recoveries, monitoring, cycle,
                   inflight, returned, alerts, probing, replies, response>>

\* a healthy result written to the status map
LoopSkipHealthyReset ==
    /\ loop_pc = "process"
    /\ idx <= Len(checks)
    /\ checks[idx].status = HEALTHY
    /\ idx' = idx + 1
    /\ component_status' =
          [component_status EXCEPT ![checks[idx].component] = HEALTHY]
    /\ UNCHANGED <<counters, logs, monitoring, loop_pc,
                   checks, cycle, inflight, audit, returned,
                   alerts, probing, replies, response>>

\* `if check.status != HealthStatus.HEALTHY` is false: next check
LoopSkipHealthy ==
    /\ loop_pc = "process"
    /\ idx <= Len(checks)
    /\ checks[idx].status = HEALTHY
    /\ idx' = idx + 1
    /\ UNCHANGED <<component_status, counters, logs, monitoring, loop_pc,
                   checks, cycle, inflight, audit, returned,
                   alerts, probing, replies, response>>

\* a failing check logged, alerted and its status taken over, but not counted
LoopFailureUncounted ==
    /\ loop_pc = "process"
    /\ idx <= Len(checks)
    /\ checks[idx].status /= HEALTHY
    /\ audit' = [audit EXCEPT !.failure_detected = @ + 1]
    /\ alerts' = Alerted(alerts, checks[idx])
    /\ component_status' =
          [component_status EXCEPT ![checks[idx].component] = checks[idx].status]
    /\ loop_pc' = "dispatch"
    /\ UNCHANGED <<counters, logs, monitoring, checks, idx, cycle, inflight,
                   returned, probing, replies, response>>

\* a failing check: counted, logged, alerted, status updated
LoopFailure ==
    /\ loop_pc = "process"
    /\ idx <= Len(checks)
    /\ checks[idx].status /= HEALTHY
    /\ failed_checks' = failed_checks + 1
    /\ audit' = [audit EXCEPT !.failure_detected = @ + 1]
    /\ alerts' = Alerted(alerts, checks[idx])
    /\ component_status' =
          [component_status EXCEPT ![checks[idx].component] = checks[idx].status]
    /\ loop_pc' = "dispatch"
    /\ UNCHANGED <<total_checks, successful_recoveries, failed_recoveries,
                   logs, monitoring, checks, idx, cycle, inflight, returned,
                    probing, replies, response>>

\* the fault of the alert callback leaving monitor_loop: the task ends
LoopAlertFaultFatal ==
    /\ loop_pc = "process"
    /\ idx <= Len(checks)
    /\ checks[idx].status /= HEALTHY
    /\ failed_checks' = failed_checks + 1
    /\ audit' = [audit EXCEPT !.failure_detected = @ + 1]
    /\ alerts' = Alerted(alerts, checks[idx])
    /\ loop_pc' = "finished"
    /\ checks' = <<>>
    /\ idx' = 0
    /\ UNCHANGED <<component_status, total_checks, successful_recoveries,
                   failed_recoveries, logs, monitoring, cycle, inflight,
                   returned, probing, replies, response>>

\* the status taken over from the result before the alert callback is called
LoopAlertFaultAfterStatus ==
    /\ loop_pc = "process"
    /\ idx <= Len(checks)
    /\ checks[idx].status /= HEALTHY
    /\ failed_checks' = failed_checks + 1
    /\ audit' = [audit EXCEPT !.failure_detected = @ + 1]
    /\ component_status' =
          [component_status EXCEPT ![checks[idx].component] = checks[idx].status]
    /\ alerts' = Alerted(alerts, checks[idx])
    /\ loop_pc' = "error_sleep"
    /\ checks' = <<>>
    /\ idx' = 0
    /\ UNCHANGED <<total_checks, successful_recoveries,
                   failed_recoveries, logs, monitoring, cycle, inflight,
                   returned, probing, replies, response>>

\* a failing check whose alert callback raises: the loop's except branch
\* logs the error and awaits its own sleep
LoopAlertFault ==
    /\ loop_pc = "process"
    /\ idx <= Len(checks)
    /\ checks[idx].status /= HEALTHY
    /\ failed_checks' = failed_checks + 1
    /\ audit' = [audit EXCEPT !.failure_detected = @ + 1]
    /\ alerts' = Alerted(alerts, checks[idx])
    /\ loop_pc' = "error_sleep"
    /\ checks' = <<>>
    /\ idx' = 0
    /\ UNCHANGED <<component_status, total_checks, successful_recoveries,
                   failed_recoveries, logs, monitoring, cycle, inflight,
                   returned, probing, replies, response>>

\* the recovery started as a task of its own, the loop going on to the next
\* result at once
LoopDispatchFanOut ==
    /\ loop_pc = "dispatch"
    /\ IF IsAutoRecoverable(checks[idx].component)
       THEN BeginAttempt(checks[idx].component, "loop")
       ELSE UNCHANGED <<component_status, inflight>>
    /\ loop_pc' = "process"
    /\ idx' = idx + 1
    /\ UNCHANGED <<counters, logs, monitoring, checks, cycle, audit, returned,
                    alerts, probing, replies, response>>

\* `if self._is_auto_recoverable(check.component): await attempt_recovery`
LoopDispatch ==
    /\ loop_pc = "dispatch"
    /\ IF IsAutoRecoverable(checks[idx].component)
       THEN /\ BeginAttempt(checks[idx].component, "loop")
            /\ loop_pc' = "recover"
            /\ UNCHANGED idx
       ELSE /\ loop_pc' = "process"
            /\ idx' = idx + 1
            /\ UNCHANGED <<component_status, inflight>>
    /\ UNCHANGED <<counters, logs, monitoring, checks, cycle, audit, returned,
                    alerts, probing, replies, response>>

\* the for loop is exhausted: `await asyncio.sleep(self.check_interval)`
LoopCycleEnd ==
    /\ loop_pc = "process"
    /\ idx > Len(checks)
    /\ loop_pc' = "sleep"
    /\ checks' = <<>>
    /\ idx' = 0
    /\ UNCHANGED <<component_status, counters, logs, monitoring, cycle,
                   inflight, audit, returned, alerts, probing, replies, response>>

-----------------------------------------------------------------------------
(* The monitor with its request handlers.  Of the manual recovery requests  *)
(* those that start an attempt_recovery are issued here; the requests that   *)
(* are answered at once, leaving the monitor as it is, are issued in         *)
(* SpecRequests.                                                             *)

Attempts == {Attempt(c, o, p) : c \in PipelineComponent,
                                o \in {"loop", "manual", "direct"},
                                p \in {"action", "verify"}}

Next ==
    \/ StartMonitoring
    \/ StopMonitoring
    \/ LoopIterate(MaxCycles)
    \/ \E c \in PipelineComponent : ProbeDone(c)
    \/ \E failing \in FailingSets : LoopGathered(failing)
    \/ LoopSkipHealthy
    \/ LoopFailure
    \/ LoopAlertFault
    \/ LoopDispatch
    \/ LoopCycleEnd
    \/ \E name \in PipelineComponent :
          /\ component_status[name] /= HEALTHY
          /\ TriggerRecovery(name, MaxRecoveries)
    \/ \E a \in Attempts : ActionReturns(a)
    \/ \E a \in Attempts : ActionRaises(a)
    \/ \E a \in Attempts : VerifyDone(a)

Spec == Init /\ [][Next]_vars

\* the timers of asyncio.sleep run out: a loop that is asleep is resumed
SpecLive == Spec /\ WF_vars(LoopIterate(MaxCycles))

-----------------------------------------------------------------------------
(* The monitor once started and never stopped, with manual recovery         *)
(* requests, on an event loop that runs every coroutine that is ready: the   *)
(* probes, the steps of monitor_loop and its sleep timers; each recovery     *)
(* action, which returns or raises; each verification sleep.                 *)

\* the probes of a cycle all healthy, or the network probe failing
NetworkFailing == SUBSET {NETWORK}

NextProgress ==
    \/ StartMonitoring
    \/ LoopIterate(MaxCycles)
    \/ \E c \in PipelineComponent : ProbeDone(c)
    \/ \E failing \in NetworkFailing : LoopGathered(failing)
    \/ LoopSkipHealthy
    \/ LoopFailure
    \/ LoopAlertFault
    \/ LoopDispatch
    \/ LoopCycleEnd
    \/ \E name \in PipelineComponent :
          /\ component_status[name] /= HEALTHY
          /\ TriggerRecovery(name, MaxCalls + 1)
    \/ \E a \in Attempts : ActionReturns(a)
    \/ \E a \in Attempts : ActionRaises(a)
    \/ \E a \in Attempts : VerifyDone(a)

\* a step of the monitor task
LoopStep ==
    \/ LoopIterate(MaxCycles)
    \/ \E c \in PipelineComponent : ProbeDone(c)
    \/ \E failing \in NetworkFailing : LoopGathered(failing)
    \/ LoopSkipHealthy
    \/ LoopFailure
    \/ LoopAlertFault
    \/ LoopDispatch
    \/ LoopCycleEnd

\* a step of an attempt_recovery call: its action returns or raises, or its
\* verification sleep ends
AttemptStep ==
    \/ \E a \in Attempts : ActionReturns(a)
    \/ \E a \in Attempts : ActionRaises(a)
    \/ \E a \in Attempts : VerifyDone(a)

SpecProgress ==
    /\ Init
    /\ [][NextProgress]_vars
    /\ WF_vars(LoopStep)
    /\ WF_vars(AttemptStep)

-----------------------------------------------------------------------------
(* get_pipeline_status as a request: the statuses may have been set to any  *)
(* value, as the test suite does by writing component_status directly       *)

\* a status query that counts itself as a check
GetPipelineStatusCounting ==
    /\ ~Running
    /\ status_reply' = PipelineStatusOf(component_status)
    /\ total_checks' = total_checks + 1
    /\ UNCHANGED <<component_status, failed_checks, successful_recoveries,
                   failed_recoveries, logs, monitoring, loopvars,
                   inflight, audit, alerts, returned, probing,
                   check_reply, editor_message, history_reply, response>>

GetPipelineStatus ==
    /\ ~Running
    /\ status_reply' = PipelineStatusOf(component_status)
    /\ UNCHANGED <<component_status, counters, logs, monitoring, loopvars,
                   inflight, audit, alerts, returned, probing,
                   check_reply, editor_message, history_reply, response>>

\* get_editor_message, which asks get_pipeline_status for the status
GetEditorMessage ==
    /\ ~Running
    /\ editor_message' = EditorMessageOf(PipelineStatusOf(component_status))
    /\ UNCHANGED <<component_status, counters, logs, monitoring, loopvars,
                   inflight, audit, alerts, returned, probing,
                   status_reply, check_reply, history_reply, response>>

InitStatus ==
    /\ component_status \in [PipelineComponent -> HealthStatus]
    /\ recent_checks = <<>>
    /\ recovery_attempts = <<>>
    /\ total_checks = 0
    /\ failed_checks = 0
    /\ successful_recoveries = 0
    /\ failed_recoveries = 0
    /\ monitoring = FALSE
    /\ loop_pc = "none"
    /\ checks = <<>>
    /\ idx = 0
    /\ probing = {}
    /\ cycle = 0
    /\ inflight = EmptyBag
    /\ audit = NoAudit
    /\ alerts = <<>>
    /\ returned = NoAttempt
    /\ status_reply = NoStatus
    /\ check_reply = NoChecks
    /\ editor_message = NoMessage
    /\ history_reply = NoHistory
    /\ response = NoResponse

NextStatus == GetPipelineStatus

SpecStatus == InitStatus /\ [][NextStatus]_vars

\* the status and the editor message both asked for, in either order
NextReport == GetPipelineStatus \/ GetEditorMessage

SpecReport == InitStatus /\ [][NextReport]_vars

-----------------------------------------------------------------------------
(* The monitor loop on its own, started from the state it is in after       *)
(* RetentionWarmup cycles in which every probe was healthy                  *)

RECURSIVE HealthyCycles(_)
HealthyCycles(n) ==
    IF n = 0 THEN <<>> ELSE HealthyCycles(n - 1) \o GatherResults({}, n)

InitRetention ==
    /\ component_status = [c \in PipelineComponent |-> HEALTHY]
    /\ recent_checks = HealthyCycles(RetentionWarmup)
    /\ recovery_attempts = <<>>
    /\ total_checks = RetentionWarmup * Len(ComponentOrder)
    /\ failed_checks = 0
    /\ successful_recoveries = 0
    /\ failed_recoveries = 0
    /\ monitoring = TRUE
    /\ loop_pc = "sleep"
    /\ checks = <<>>
    /\ idx = 0
    /\ probing = {}
    /\ cycle = RetentionWarmup
    /\ inflight = EmptyBag
    /\ audit = [NoAudit EXCEPT !.health_check = RetentionWarmup * Len(ComponentOrder)]
    /\ alerts = <<>>
    /\ returned = NoAttempt
    /\ status_reply = NoStatus
    /\ check_reply = NoChecks
    /\ editor_message = NoMessage
    /\ history_reply = NoHistory
    /\ response = NoResponse

NextRetention ==
    \/ LoopIterate(RetentionWarmup + MaxCycles)
    \/ \E c \in PipelineComponent : ProbeDone(c)
    \/ \E failing \in FailingSets : LoopGathered(failing)
    \/ LoopSkipHealthy
    \/ LoopFailure
    \/ LoopAlertFault
    \/ LoopDispatch
    \/ LoopCycleEnd
    \/ \E a \in Attempts : ActionReturns(a)
    \/ \E a \in Attempts : ActionRaises(a)
    \/ \E a \in Attempts : VerifyDone(a)

SpecRetention == InitRetention /\ [][NextRetention]_vars

-----------------------------------------------------------------------------
(* Manual recovery requests arriving one after the other, from the state    *)
(* the monitor is in after one cycle in which the validation-service probe  *)
(* reported DOWN and monitoring was stopped during the sleep                *)

InitValidationDown ==
    /\ component_status =
          [c \in PipelineComponent |-> IF c = VALIDATION_SERVICE THEN DOWN ELSE HEALTHY]
    /\ recent_checks = GatherResults({VALIDATION_SERVICE}, 1)
    /\ recovery_attempts = <<>>
    /\ total_checks = Len(ComponentOrder)
    /\ failed_checks = 1
    /\ successful_recoveries = 0
    /\ failed_recoveries = 0
    /\ monitoring = FALSE
    /\ loop_pc = "cancelled"
    /\ checks = <<>>
    /\ idx = 0
    /\ probing = {}
    /\ cycle = 1
    /\ inflight = EmptyBag
    /\ audit = [health_check |-> Len(ComponentOrder), failure_detected |-> 1,
                recovery_attempt |-> 0]
    /\ alerts = <<<<VALIDATION_SERVICE, DOWN>>>>
    /\ returned = NoAttempt
    /\ status_reply = NoStatus
    /\ check_reply = NoChecks
    /\ editor_message = NoMessage
    /\ history_reply = NoHistory
    /\ response = NoResponse

NextRecoveryLog ==
    \/ /\ inflight = EmptyBag
       /\ \E name \in RequestNames :
             TriggerRecovery(name, RecentChecksKept + MaxLogRuns)
    \/ \E a \in Attempts : ActionReturns(a)
    \/ \E a \in Attempts : ActionRaises(a)
    \/ \E a \in Attempts : VerifyDone(a)

SpecRecoveryLog == InitValidationDown /\ [][NextRecoveryLog]_vars

-----------------------------------------------------------------------------
(* attempt_recovery called directly, one call at a time, on a monitor whose *)
(* statuses were set beforehand, as the recovery tests of the test suite do *)

CallAttemptRecovery(component) ==
    /\ inflight = EmptyBag
    /\ Len(recovery_attempts) < MaxCalls
    /\ component_status[component] /= HEALTHY
    /\ BeginAttempt(component, "direct")
    /\ UNCHANGED <<counters, logs, monitoring, loopvars, audit, returned,
                   alerts, probing, replies, response>>

NextSingle ==
    \/ \E c \in PipelineComponent : CallAttemptRecovery(c)
    \/ \E a \in Attempts : ActionReturns(a)
    \/ \E a \in Attempts : ActionRaises(a)
    \/ \E a \in Attempts : VerifyDone(a)

SpecSingle == InitStatus /\ [][NextSingle]_vars

-----------------------------------------------------------------------------
(* attempt_recovery called directly as above and, once, with a value that   *)
(* recovery_map has no entry for                                            *)

\* attempt_recovery(Unmapped): the action is the default of recovery_map.get,
\* the else branch raises inside the try without awaiting anything, and the
\* except branch ends the attempt
CallAttemptRecoveryUnmapped ==
    /\ inflight = EmptyBag
    /\ Unmapped \notin DOMAIN component_status
    /\ RecoveryActionFor(Unmapped) = MANUAL_INTERVENTION
    /\ LET attempt == RecoveryAttempt(Unmapped, FALSE) IN
       /\ component_status' =
             [k \in DOMAIN component_status \cup {Unmapped} |->
                 IF k = Unmapped THEN StatusAfterRecovery(FALSE)
                 ELSE component_status[k]]
       /\ failed_recoveries' = failed_recoveries + 1
       /\ recovery_attempts' = Append(recovery_attempts, attempt)
       /\ audit' = [audit EXCEPT !.recovery_attempt = @ + 1]
       /\ returned' = attempt
    /\ UNCHANGED <<recent_checks, total_checks, failed_checks,
                   successful_recoveries, monitoring, loopvars, inflight,
                   alerts, probing, replies, response>>

NextActions ==
    \/ \E c \in PipelineComponent : CallAttemptRecovery(c)
    \/ CallAttemptRecoveryUnmapped
    \/ \E a \in Attempts : ActionReturns(a)
    \/ \E a \in Attempts : ActionRaises(a)
    \/ \E a \in Attempts : VerifyDone(a)

SpecActions == InitStatus /\ [][NextActions]_vars

-----------------------------------------------------------------------------
(* The monitor loop with probes failing for components that recover on      *)
(* their own, two of them in one cycle included                             *)

RecoverableProbes == {NETWORK, QUEUE}

NextSequential ==
    \/ StartMonitoring
    \/ StopMonitoring
    \/ LoopIterate(MaxCycles)
    \/ \E c \in PipelineComponent : ProbeDone(c)
    \/ \E failing \in SUBSET RecoverableProbes : LoopGathered(failing)
    \/ LoopSkipHealthy
    \/ LoopFailure
    \/ LoopAlertFault
    \/ LoopDispatch
    \/ LoopCycleEnd
    \/ \E a \in Attempts : ActionReturns(a)
    \/ \E a \in Attempts : ActionRaises(a)
    \/ \E a \in Attempts : VerifyDone(a)

SpecSequential == Init /\ [][NextSequential]_vars

-----------------------------------------------------------------------------
(* Manual recovery requests that may overlap, on a monitor that is not      *)
(* monitoring and whose components are healthy or down                      *)

InitDown ==
    /\ InitStatus
    /\ \A c \in PipelineComponent : component_status[c] \in {HEALTHY, DOWN}

NextConcurrent ==
    \/ \E name \in PipelineComponent :
          /\ component_status[name] /= HEALTHY
          /\ TriggerRecovery(name, MaxCalls + 1)
    \/ \E a \in Attempts : ActionReturns(a)
    \/ \E a \in Attempts : ActionRaises(a)
    \/ \E a \in Attempts : VerifyDone(a)

SpecConcurrent == InitDown /\ [][NextConcurrent]_vars

-----------------------------------------------------------------------------
(* get_pipeline_status and get_editor_message called while the monitor loop *)
(* runs its cycles and manual recoveries are made                           *)

NextQueries ==
    \/ StartMonitoring
    \/ LoopIterate(MaxCalls)
    \/ \E c \in PipelineComponent : ProbeDone(c)
    \/ \E failing \in FailingSets : LoopGathered(failing)
    \/ LoopSkipHealthy
    \/ LoopFailure
    \/ LoopDispatch
    \/ LoopCycleEnd
    \/ \E name \in PipelineComponent :
          /\ component_status[name] /= HEALTHY
          /\ TriggerRecovery(name, MaxCalls + 1)
    \/ \E a \in Attempts : ActionReturns(a)
    \/ \E a \in Attempts : ActionRaises(a)
    \/ \E a \in Attempts : VerifyDone(a)
    \/ GetPipelineStatus
    \/ GetEditorMessage

SpecQueries == Init /\ [][NextQueries]_vars

-----------------------------------------------------------------------------
(* Status queries on a monitor whose loop is asleep after up to MaxHistory  *)
(* cycles without fault, in each of which any of FailingProbes reported     *)
(* down and the recoveries the loop dispatched succeeded or failed          *)

\* what happens in one cycle: the probes that report down and, of the
\* recoveries the loop dispatches for them, those that succeed
CycleEvents ==
    {e \in [failing : SUBSET FailingProbes, succeeding : SUBSET FailingProbes] :
        e.succeeding \subseteq {c \in e.failing : IsAutoRecoverable(c)}}

\* the cycles run, oldest first
Histories == UNION {[1..n -> CycleEvents] : n \in 0..MaxHistory}

\* the state monitor_loop leaves after one more cycle, its number `timestamp`,
\* in which the events of `e` happened
AfterCycle(st, e, timestamp) ==
    LET results    == GatherResults(e.failing, timestamp)
        IsDown(c)  == c \in e.failing
        down       == SelectSeq(ComponentOrder, IsDown)
        recovered  == SelectSeq(down, IsAutoRecoverable)
        Succeeds(c) == c \in e.succeeding
    IN  [component_status |->
            [c \in PipelineComponent |->
                IF c \in e.failing
                THEN (IF IsAutoRecoverable(c)
                      THEN StatusAfterRecovery(Succeeds(c))
                      ELSE DOWN)
                ELSE st.component_status[c]],
         recent_checks     |-> KeepRecent(st.recent_checks \o results),
         recovery_attempts |->
            st.recovery_attempts
               \o [i \in 1..Len(recovered) |->
                      RecoveryAttempt(recovered[i], Succeeds(recovered[i]))],
         total_checks      |-> TotalAfter(st.total_checks, results),
         failed_checks     |-> st.failed_checks + Len(down),
         successful_recoveries |->
            st.successful_recoveries + Len(SelectSeq(recovered, Succeeds)),
         failed_recoveries |->
            st.failed_recoveries
               + Len(recovered) - Len(SelectSeq(recovered, Succeeds)),
         alerts            |->
            st.alerts \o [i \in 1..Len(down) |-> <<down[i], DOWN>>]]

\* the state after __init__
NewMonitor ==
    [component_status  |-> [c \in PipelineComponent |-> HEALTHY],
     recent_checks     |-> <<>>,
     recovery_attempts |-> <<>>,
     total_checks      |-> 0,
     failed_checks     |-> 0,
     successful_recoveries |-> 0,
     failed_recoveries |-> 0,
     alerts            |-> <<>>]

RECURSIVE AfterCycles(_, _)
AfterCycles(history, n) ==
    IF n = 0 THEN NewMonitor
    ELSE AfterCycle(AfterCycles(history, n - 1), history[n], n)

\* the loop is asleep after `cycles` cycles that left the monitor as `st` says
AsleepIn(st, cycles) ==
       LET n == Len(st.recovery_attempts)
       IN  /\ component_status = st.component_status
           /\ recent_checks = st.recent_checks
           /\ recovery_attempts = st.recovery_attempts
           /\ total_checks = st.total_checks
           /\ failed_checks = st.failed_checks
           /\ successful_recoveries = st.successful_recoveries
           /\ failed_recoveries = st.failed_recoveries
           /\ monitoring = (cycles > 0)
           /\ loop_pc = IF cycles > 0 THEN "sleep" ELSE "none"
           /\ checks = <<>>
           /\ idx = 0
           /\ probing = {}
           /\ cycle = cycles
           /\ inflight = EmptyBag
           /\ audit = [NoAudit EXCEPT !.health_check = st.total_checks,
                                      !.failure_detected = st.failed_checks,
                                      !.recovery_attempt = n]
           /\ alerts = st.alerts
           /\ returned = IF n = 0 THEN NoAttempt ELSE st.recovery_attempts[n]
           /\ status_reply = NoStatus
           /\ check_reply = NoChecks
           /\ editor_message = NoMessage
           /\ history_reply = NoHistory
           /\ response = NoResponse

\* the loop is asleep after the cycles of `history`
Asleep(history) == AsleepIn(AfterCycles(history, Len(history)), Len(history))

InitHistory == \E history \in Histories : Asleep(history)

NextHistory == GetPipelineStatus

SpecHistory == InitHistory /\ [][NextHistory]_vars

-----------------------------------------------------------------------------
(* Status queries on a monitor whose loop is asleep after up to MaxCounted  *)
(* cycles: in the first `both` of them every probe of FailingProbes         *)
(* reported down and the loop's recoveries succeeded, in the next `one`     *)
(* the validation-service probe alone did, and the others were quiet        *)

CountedHistory(n, both, one) ==
    [i \in 1..n |->
        IF i <= both
        THEN [failing    |-> FailingProbes,
              succeeding |-> {c \in FailingProbes : IsAutoRecoverable(c)}]
        ELSE IF i <= both + one
        THEN [failing |-> {VALIDATION_SERVICE}, succeeding |-> {}]
        ELSE [failing |-> {}, succeeding |-> {}]]

InitUptime ==
    \E n \in 0..MaxCounted :
       \E both, one \in 0..n :
          /\ both + one <= n
          /\ Asleep(CountedHistory(n, both, one))

NextUptime == GetPipelineStatus

SpecUptime == InitUptime /\ [][NextUptime]_vars

-----------------------------------------------------------------------------
(* api.get_history on a monitor whose loop is asleep after up to            *)
(* MaxEventCycles cycles. Here the clock ticks at every datetime.now(): the *)
(* probes of a cycle finish one after the other, in the order the cycle's   *)
(* `order` says, each stamping its result when it finishes, and the         *)
(* recovery attempts of the cycle are stamped after them. The recovery log  *)
(* keeps the timestamp of each attempt.                                     *)

\* the order the five probes finish in: the order they are listed in, as
\* replaced probes may, and the order the sleeps of the probes as shipped
\* give (0.02 s database and queue, 0.03 s validation-service, 0.04 s
\* storage, 0.05 s network)
ListedOrder == ComponentOrder
ShippedOrder == <<DATABASE, QUEUE, VALIDATION_SERVICE, STORAGE, NETWORK>>
CompletionOrders == {ListedOrder, ShippedOrder}

TimedCycleEvents ==
    {e \in [failing : SUBSET FailingProbes, succeeding : SUBSET FailingProbes,
            order : CompletionOrders] :
        e.succeeding \subseteq {c \in e.failing : IsAutoRecoverable(c)}}

TimedHistories == UNION {[1..n -> TimedCycleEvents] : n \in 0..MaxEventCycles}

TicksPerCycle == 2 * Len(ComponentOrder)

\* the clock value of the k-th datetime.now() of cycle n
Tick(n, k) == (n - 1) * TicksPerCycle + k

\* position of component c in the completion order
FinishRank(order, c) == CHOOSE k \in 1..Len(order) : order[k] = c

\* the RecoveryAttempt record with its timestamp
TimedAttempt(component, success, timestamp) ==
    [component     |-> component,
     action        |-> RecoveryActionFor(component),
     success       |-> success,
     timestamp     |-> timestamp,
     error_message |-> IF success THEN "none" ELSE "error"]

\* what gather returns in cycle n: the results in the order the probes are
\* listed in, each stamped when its probe finished
TimedResults(e, n) ==
    [i \in 1..Len(ComponentOrder) |->
        HealthCheck(ComponentOrder[i],
                    IF ComponentOrder[i] \in e.failing THEN DOWN ELSE HEALTHY,
                    Tick(n, FinishRank(e.order, ComponentOrder[i])))]

\* the attempts the loop makes in cycle n, one after the other
TimedAttempts(e, n) ==
    LET Recovered(c) == c \in e.failing /\ IsAutoRecoverable(c)
        recovered    == SelectSeq(ComponentOrder, Recovered)
    IN  [j \in 1..Len(recovered) |->
            TimedAttempt(recovered[j], recovered[j] \in e.succeeding,
                         Tick(n, Len(ComponentOrder) + j))]

RECURSIVE TimedChecksLog(_, _)
TimedChecksLog(history, n) ==
    IF n = 0 THEN <<>>
    ELSE KeepRecent(TimedChecksLog(history, n - 1) \o TimedResults(history[n], n))

RECURSIVE TimedAttemptsLog(_, _)
TimedAttemptsLog(history, n) ==
    IF n = 0 THEN <<>>
    ELSE TimedAttemptsLog(history, n - 1) \o TimedAttempts(history[n], n)

InitEvents ==
    \E history \in TimedHistories :
       LET n == Len(history)
       IN  AsleepIn([AfterCycles(history, n) EXCEPT
                        !.recent_checks = TimedChecksLog(history, n),
                        !.recovery_attempts = TimedAttemptsLog(history, n)], n)

\* xs[-n:]
PyLast(xs, n) ==
    IF n > 0 THEN LastN(xs, n)
    ELSE IF -n >= Len(xs) THEN <<>>
    ELSE SubSeq(xs, 1 - n, Len(xs))

\* xs[:n]
PyFirst(xs, n) ==
    IF n >= Len(xs) THEN xs
    ELSE IF n >= 0 THEN SubSeq(xs, 1, n)
    ELSE IF Len(xs) + n <= 0 THEN <<>>
    ELSE SubSeq(xs, 1, Len(xs) + n)

CheckEvent(check) ==
    [type      |-> "health_check",
     component |-> check.component,
     status    |-> check.status,
     timestamp |-> check.timestamp,
     error     |-> check.error_message]

AttemptEvent(attempt) ==
    [type      |-> "recovery_attempt",
     component |-> attempt.component,
     action    |-> attempt.action,
     success   |-> attempt.success,
     timestamp |-> attempt.timestamp,
     error     |-> attempt.error_message]

\* where list.sort(key=timestamp, reverse=True) puts x among events already
\* sorted: behind those that are as recent or more recent. The keys are the
\* isoformat strings of the timestamps, which compare as the timestamps do.
RECURSIVE InsertByTime(_, _)
InsertByTime(events, x) ==
    IF events = <<>> THEN <<x>>
    ELSE IF Head(events).timestamp >= x.timestamp
    THEN <<Head(events)>> \o InsertByTime(Tail(events), x)
    ELSE <<x>> \o events

RECURSIVE SortByTime(_)
SortByTime(events) ==
    IF events = <<>> THEN <<>>
    ELSE InsertByTime(SortByTime(SubSeq(events, 1, Len(events) - 1)),
                      events[Len(events)])

\* the reply of get_history(limit)
HistoryOf(limit) ==
    LET checked   == PyLast(recent_checks, limit)
        attempted == PyLast(recovery_attempts, limit)
        all_events ==
            SortByTime([i \in 1..Len(checked) |-> CheckEvent(checked[i])]
                       \o [i \in 1..Len(attempted) |-> AttemptEvent(attempted[i])])
    IN  [limit        |-> limit,
         events       |-> PyFirst(all_events, limit),
         total_events |-> Len(all_events)]

GetHistory(limit) ==
    /\ ~Running
    /\ history_reply' = HistoryOf(limit)
    /\ UNCHANGED <<component_status, counters, logs, monitoring, loopvars,
                   inflight, audit, alerts, returned, probing,
                   status_reply, check_reply, editor_message, response>>

NextEvents == \E limit \in 1..MaxLimit : GetHistory(limit)

SpecEvents == InitEvents /\ [][NextEvents]_vars

-----------------------------------------------------------------------------
(* get_editor_message on a monitor whose loop is asleep after up to         *)
(* MaxReported cycles, between manual recovery requests for the components  *)
(* that are not healthy                                                     *)

InitMessage ==
    \E history \in Histories : Len(history) <= MaxReported /\ Asleep(history)

NextMessage ==
    \/ GetEditorMessage
    \/ \E name \in PipelineComponent :
          /\ component_status[name] /= HEALTHY
          /\ TriggerRecovery(name, MaxReported + MaxCalls)
    \/ \E a \in Attempts : ActionReturns(a)
    \/ \E a \in Attempts : ActionRaises(a)
    \/ \E a \in Attempts : VerifyDone(a)

SpecMessage == InitMessage /\ [][NextMessage]_vars

-----------------------------------------------------------------------------
(* Manual recovery requests, for any name and with the components in any    *)
(* statuses, on a monitor that is not monitoring                            *)

NextRequests ==
    \/ \E name \in RequestNames : TriggerRecovery(name, MaxCalls)
    \/ \E a \in Attempts : ActionReturns(a)
    \/ \E a \in Attempts : ActionRaises(a)
    \/ \E a \in Attempts : VerifyDone(a)

SpecRequests == InitStatus /\ [][NextRequests]_vars

-----------------------------------------------------------------------------
(* perform_health_checks called directly on a new monitor, as the            *)
(* force-check request and the test suite do; the probes may have been      *)
(* replaced, as the test suite replaces check_network                       *)

\* a forced check that writes the failures it finds to the status map and
\* counts them, as a cycle of the loop does
ForceHealthCheckApplied(outcome) ==
    /\ ~Running
    /\ audit.health_check < MaxAudited
    /\ LET gathered == Gathered(outcome, cycle)
           results  == HealthChecksOf(gathered)
           Failed(c) == \E i \in 1..Len(results) :
                           results[i].component = c /\ results[i].status /= HEALTHY
       IN  /\ audit' = [audit EXCEPT !.health_check = @ + Len(results)]
           /\ check_reply' = [called   |-> TRUE,
                              gathered |-> gathered,
                              results  |-> results]
           /\ component_status' =
                 [c \in PipelineComponent |->
                     IF Failed(c) THEN DOWN ELSE component_status[c]]
           /\ failed_checks' =
                 failed_checks + Cardinality({c \in PipelineComponent : Failed(c)})
    /\ UNCHANGED <<total_checks, successful_recoveries, failed_recoveries,
                   logs, monitoring, loopvars,
                   inflight, alerts, returned, probing,
                   status_reply, editor_message, history_reply, response>>

\* api.force_health_check: the probes are gathered, each HealthCheck among the
\* outcomes is written to the audit trail and the list of them is returned
ForceHealthCheck(outcome) ==
    /\ ~Running
    /\ audit.health_check < MaxAudited
    /\ LET gathered == Gathered(outcome, cycle)
           results  == HealthChecksOf(gathered)
       IN  /\ audit' = [audit EXCEPT !.health_check = @ + Len(results)]
           /\ check_reply' = [called   |-> TRUE,
                              gathered |-> gathered,
                              results  |-> results]
    /\ UNCHANGED <<component_status, counters, logs, monitoring, loopvars,
                   inflight, alerts, returned, probing,
                   status_reply, editor_message, history_reply, response>>

NextForceCheck ==
    \E outcome \in [PipelineComponent -> ProbeOutcome] : ForceHealthCheck(outcome)

SpecForceCheck == Init /\ [][NextForceCheck]_vars

-----------------------------------------------------------------------------
(* Vocabulary of the properties *)

Max(a, b) == IF a >= b THEN a ELSE b
Min(a, b) == IF a <= b THEN a ELSE b

\* the attempt_recovery call the monitor loop is awaiting, if any
LoopAttempts == {a \in BagToSet(inflight) : a.origin = "loop"}

\* precedence of the statuses in the overall status
Rank(s) == CASE s = DOWN -> 3 [] s = DEGRADED -> 2 [] s = RECOVERING -> 1
             [] OTHER -> 0

\* this step ends an attempt_recovery call by its return
AttemptReturned == Len(recovery_attempts') > Len(recovery_attempts)

\* this step starts an attempt_recovery call for component c
AttemptStarted(c) == InFlightFor(c)' > InFlightFor(c)

\* this step takes an attempt_recovery call for c out of flight
AttemptLeft(c) == InFlightFor(c)' < InFlightFor(c)

-----------------------------------------------------------------------------
(* C1: at most one attempt_recovery is in flight per component at any time,  *)
(* whether the attempts come from manual requests or from the monitor loop.  *)
C1_OneAttemptPerComponent ==
    \A c \in PipelineComponent : InFlightFor(c) <= 1

(* C2: a component's status is recovering if and only if exactly one         *)
(* attempt_recovery call for it has started and not yet completed.           *)
C2_RecoveringIffOneInFlight ==
    \A c \in PipelineComponent :
        (component_status[c] = RECOVERING) <=> (InFlightFor(c) = 1)

(* C3: stop_monitoring called while the loop awaits the attempt_recovery it  *)
(* dispatched does not abort that attempt: after the stop the attempt is     *)
(* still in flight, to complete on its own.                                  *)
C3_StopKeepsLoopAttempt ==
    [][(loop_pc = "recover" /\ loop_pc' = "cancelled")
          => \A a \in LoopAttempts : BagIn(a, inflight')]_vars

(* C4: a single attempt_recovery(c) running alone sets the status of c to   *)
(* recovering before the recovery action has returned and keeps it so while  *)
(* the call is in flight; its return appends exactly one record and leaves   *)
(* either (healthy, successful_recoveries + 1, failed_recoveries unchanged,  *)
(* record.success) or (down, failed_recoveries + 1, successful_recoveries    *)
(* unchanged, not record.success, error message captured).                   *)
C4_Outcome(c) ==
    LET r == recovery_attempts'[Len(recovery_attempts')] IN
    /\ Len(recovery_attempts') = Len(recovery_attempts) + 1
    /\ SubSeq(recovery_attempts', 1, Len(recovery_attempts)) = recovery_attempts
    /\ r.component = c
    /\ returned' = r
    /\ \/ /\ r.success
          /\ r.error_message = "none"
          /\ component_status'[c] = HEALTHY
          /\ successful_recoveries' = successful_recoveries + 1
          /\ failed_recoveries' = failed_recoveries
       \/ /\ ~r.success
          /\ r.error_message /= "none"
          /\ component_status'[c] = DOWN
          /\ failed_recoveries' = failed_recoveries + 1
          /\ successful_recoveries' = successful_recoveries

C4_SingleAttempt ==
    /\ [](\A a \in BagToSet(inflight) : component_status[a.component] = RECOVERING)
    /\ [][\A c \in PipelineComponent :
            /\ AttemptStarted(c) =>
                  /\ component_status'[c] = RECOVERING
                  /\ BagIn(Attempt(c, "direct", "action"), inflight')
                  /\ UNCHANGED <<counters, recovery_attempts>>
            /\ AttemptLeft(c) => C4_Outcome(c)
            /\ (/\ InFlightFor(c)' = InFlightFor(c)
                /\ \A d \in PipelineComponent \ {c} : ~AttemptLeft(d))
                  => UNCHANGED <<successful_recoveries, failed_recoveries,
                                 recovery_attempts>>]_vars

\* the call on a non-healthy component has returned with success
C4_Witness ==
    /\ Len(recovery_attempts) = 1
    /\ returned.success
    /\ successful_recoveries = 1
    /\ component_status[returned.component] = HEALTHY
    /\ inflight = EmptyBag

(* C5: every attempt_recovery call that leaves flight does so by returning   *)
(* its RecoveryAttempt, appended exactly once to the recovery log and        *)
(* written exactly once to the audit trail.                                  *)
C5_EveryAttemptRecorded ==
    [][\A c \in PipelineComponent :
          AttemptLeft(c) =>
             /\ Len(recovery_attempts') = Len(recovery_attempts) + 1
             /\ audit'.recovery_attempt = audit.recovery_attempt + 1
             /\ returned' = recovery_attempts'[Len(recovery_attempts')]
             /\ returned'.component = c]_vars

(* C6: overall_status is the status of highest precedence                    *)
(* (down > degraded > recovering > healthy) present among the components.    *)
C6_OverallPrecedence ==
    status_reply /= NoStatus =>
       /\ \E c \in PipelineComponent :
             status_reply.overall_status = component_status[c]
       /\ \A c \in PipelineComponent :
             Rank(status_reply.overall_status) >= Rank(component_status[c])

\* a query answered degraded while another component is recovering
C6_Witness ==
    /\ status_reply.overall_status = DEGRADED
    /\ \E c \in PipelineComponent : component_status[c] = RECOVERING
    /\ \A c \in PipelineComponent : component_status[c] /= DOWN

(* C7: every change of a component's status is healthy -> down on a failed   *)
(* probe, down -> recovering on recovery start, recovering -> healthy on     *)
(* recovery success or recovering -> down on recovery failure; no component  *)
(* becomes degraded.                                                         *)
C7_OnlyListedTransitions ==
    [][\A c \in PipelineComponent :
          component_status'[c] /= component_status[c] =>
             LET s == component_status[c]
                 t == component_status'[c]
                 ended == /\ AttemptReturned
                          /\ returned'.component = c
             IN  \/ s = HEALTHY /\ t = DOWN /\ failed_checks' = failed_checks + 1
                 \/ s = DOWN /\ t = RECOVERING /\ AttemptStarted(c)
                 \/ s = RECOVERING /\ t = HEALTHY /\ ended /\ returned'.success
                 \/ s = RECOVERING /\ t = DOWN /\ ended /\ ~returned'.success]_vars

(* C8: the recovery-attempts log never holds more records than the retention *)
(* window the monitor keeps for its logs.                                    *)
C8_RecoveryLogBounded ==
    Len(recovery_attempts) <= RecentChecksKept

(* C9: the recent-checks log holds at most 100 entries, and every append   *)
(* leaves exactly the most recently appended results in append order: the    *)
(* results the loop has gathered at the end, before them the newest of the   *)
(* old entries; no other step changes the log.                               *)
C9_RecentChecksWindow ==
    /\ [](Len(recent_checks) <= 100)
    /\ [][IF loop_pc = "gather" /\ loop_pc' = "process"
          THEN LET new  == checks'
                   kept == Len(recent_checks') - Len(new)
               IN  /\ Len(new) = Len(ComponentOrder)
                   /\ Len(recent_checks') = Min(Len(recent_checks) + Len(new), 100)
                   /\ \A i \in 1..Len(new) : recent_checks'[kept + i] = new[i]
                   /\ \A i \in 1..kept :
                         recent_checks'[i] =
                            recent_checks[Len(recent_checks) - kept + i]
          ELSE recent_checks' = recent_checks]_vars

\* the log is full and the results of the first cycle have been evicted
C9_Witness ==
    /\ Len(recent_checks) = 100
    /\ total_checks > 100
    /\ recent_checks[1].timestamp > 1
    /\ recent_checks[100].timestamp = cycle

(* C10: total_checks >= failed_checks >= 0, the recovery counters are >= 0,  *)
(* and no step (cycles cut short by a fault or by stop_monitoring included)  *)
(* decreases any of the four counters.                                       *)
C10_Counters ==
    /\ [](/\ total_checks >= failed_checks
          /\ failed_checks >= 0
          /\ successful_recoveries >= 0
          /\ failed_recoveries >= 0)
    /\ [][/\ total_checks' >= total_checks
          /\ failed_checks' >= failed_checks
          /\ successful_recoveries' >= successful_recoveries
          /\ failed_recoveries' >= failed_recoveries]_vars

\* the network failure of one cycle was counted and the cycle then cut short
\* by a fault of the alert callback (network is healthy with no recovery on
\* record), recoveries of both outcomes were counted, monitoring was stopped
C10_Witness ==
    /\ total_checks = 2 * Len(ComponentOrder)
    /\ failed_checks = 2
    /\ \E i \in 1..Len(recent_checks) :
          recent_checks[i].component = NETWORK /\ recent_checks[i].status = DOWN
    /\ component_status[NETWORK] = HEALTHY
    /\ \A i \in 1..Len(recovery_attempts) :
          recovery_attempts[i].component = VALIDATION_SERVICE
    /\ successful_recoveries = 1
    /\ failed_recoveries = 1
    /\ inflight = EmptyBag
    /\ loop_pc = "cancelled"

\* this step is a direct call of perform_health_checks
DirectCall ==
    /\ loop_pc' = loop_pc
    /\ check_reply'.called
    /\ check_reply' /= check_reply \/ audit' /= audit

\* the components the probes of the last direct call raised for
RaisedIn(reply) ==
    {ComponentOrder[i] : i \in {j \in 1..Len(reply.gathered) :
                                    ~IsHealthCheck(reply.gathered[j])}}

(* C11: perform_health_checks awaits all five probes; its results are        *)
(* HealthCheck records only, one for each component whose probe did not      *)
(* raise and none for a probe that raised, five in component order when no   *)
(* probe raises; each result makes exactly one health-check audit entry.     *)
C11_PerformHealthChecks ==
    /\ [](check_reply.called =>
            LET r == check_reply.results IN
            /\ Len(check_reply.gathered) = Len(ComponentOrder)
            /\ \A i \in 1..Len(r) : IsHealthCheck(r[i])
            /\ \A c \in PipelineComponent :
                  Cardinality({i \in 1..Len(r) : r[i].component = c})
                     = IF c \in RaisedIn(check_reply) THEN 0 ELSE 1
            /\ RaisedIn(check_reply) = {} =>
                  /\ Len(r) = 5
                  /\ \A i \in 1..5 : r[i].component = ComponentOrder[i])
    /\ [][DirectCall =>
             audit'.health_check = audit.health_check + Len(check_reply'.results)]_vars

\* a call in which the network probe raised and the other four returned,
\* the queue probe reporting down
C11_Witness ==
    /\ check_reply.called
    /\ RaisedIn(check_reply) = {NETWORK}
    /\ Len(check_reply.results) = 4
    /\ check_reply.results[4] = HealthCheck(QUEUE, DOWN, cycle)
    /\ audit.health_check = 4

(* C12: a direct call of perform_health_checks that returns at least one     *)
(* result leaves total_checks strictly greater than before the call.         *)
C12_DirectCallCounted ==
    [][(DirectCall /\ Len(check_reply'.results) >= 1)
          => total_checks' > total_checks]_vars

\* number of the first n results whose status is not healthy
Unhealthy(results, n) ==
    Cardinality({i \in 1..Min(n, Len(results)) : results[i].status /= HEALTHY})

\* the monitor loop is between the return of perform_health_checks and the
\* end of its for loop
InCycle == loop_pc \in {"process", "dispatch", "recover"}

\* this step is the loop's perform_health_checks returning
CycleGathered == loop_pc = "gather" /\ loop_pc' = "process"

\* this step ends a cycle in which no fault was raised
CycleCompleted == InCycle /\ loop_pc' = "sleep" /\ idx > Len(checks)

\* failing results of the current cycle the loop has gone past or is at with
\* its failure processing done
Counted ==
    Unhealthy(checks, idx - 1)
       + (IF loop_pc \in {"dispatch", "recover"} THEN 1 ELSE 0)

(* C13: in a cycle without fault total_checks grows by the number of results *)
(* when they are returned and then stays; the results are the tail of the    *)
(* recent-checks log for the rest of the cycle; failed_checks starts the     *)
(* cycle unchanged, grows in step with the non-healthy results the loop has  *)
(* processed, and the cycle ends only once every result has been processed,  *)
(* so it has grown by exactly the number of non-healthy results.             *)
C13_CycleCounts ==
    /\ [](InCycle => /\ idx >= 1
                     /\ LastN(recent_checks, Len(checks)) = checks)
    /\ [][/\ CycleGathered =>
               /\ total_checks' = total_checks + Len(checks')
               /\ failed_checks' = failed_checks
               /\ Counted' = 0
          /\ (InCycle /\ InCycle') =>
               /\ total_checks' = total_checks
               /\ checks' = checks
               /\ failed_checks' - Counted' = failed_checks - Counted
          /\ CycleCompleted =>
               /\ total_checks' = total_checks
               /\ failed_checks' = failed_checks
               /\ idx = Len(checks) + 1
               /\ Counted = Unhealthy(checks, Len(checks))]_vars

\* the first cycle has ended without fault: its one failing result was
\* counted and the recovery the loop dispatched for it is on record
C13_Witness ==
    /\ loop_pc = "sleep"
    /\ cycle = 1
    /\ total_checks = Len(ComponentOrder)
    /\ failed_checks = 1
    /\ Len(recovery_attempts) = 1
    /\ \E i \in 1..Len(recent_checks) :
          /\ recent_checks[i].status = DOWN
          /\ recent_checks[i].component = recovery_attempts[1].component

\* audit entries of kind failure_detected
FailureLogged == audit.failure_detected

(* C14: in a cycle without fault the processing of each non-healthy result   *)
(* calls the alert callback once with (its component, its status), logs one  *)
(* failure-detected event and sets the component's status to the result's;   *)
(* going past a healthy result, and every other step of the cycle, calls no  *)
(* alert and logs no failure; the cycle ends only after every result.        *)
C14_AlertPerFailure ==
    [][/\ CycleGathered => (alerts' = alerts /\ FailureLogged' = FailureLogged)
       /\ (InCycle /\ InCycle') =>
             IF Counted' = Counted + 1
             THEN LET check == checks[idx] IN
                  /\ check.status /= HEALTHY
                  /\ alerts' = Append(alerts, <<check.component, check.status>>)
                  /\ FailureLogged' = FailureLogged + 1
                  /\ component_status'[check.component] = check.status
             ELSE /\ Counted' = Counted
                  /\ alerts' = alerts
                  /\ FailureLogged' = FailureLogged
       /\ CycleCompleted =>
             /\ idx = Len(checks) + 1
             /\ alerts' = alerts
             /\ FailureLogged' = FailureLogged]_vars

\* the first cycle has ended without fault: the network probe reported down,
\* the one alert was for (network, down) and network was then recovered
C14_Witness ==
    /\ loop_pc = "sleep"
    /\ cycle = 1
    /\ alerts = <<<<NETWORK, DOWN>>>>
    /\ audit.failure_detected = 1
    /\ Len(recovery_attempts) = 1
    /\ recovery_attempts[1].component = NETWORK
    /\ recovery_attempts[1].success
    /\ component_status[NETWORK] = HEALTHY

\* number of attempt_recovery calls in flight that the monitor loop started
LoopAttemptCount == BagCardinality([a \in LoopAttempts |-> inflight[a]])

\* a result the loop is to dispatch a recovery for
ToRecover(check) ==
    check.status /= HEALTHY /\ check.component /= VALIDATION_SERVICE

(* C15 as amended: in each cycle that runs to its end without a fault the    *)
(* loop invokes attempt_recovery exactly once for every result that is not   *)
(* healthy and whose component is not validation-service, awaiting it before *)
(* the next result, and never for validation-service or a healthy result:    *)
(* the loop starts an attempt only as the dispatch of such a result, goes    *)
(* past such a result only by that attempt's return, goes past any other     *)
(* result with no attempt of its own in flight, and ends only after every    *)
(* result.                                                                   *)
C15_LoopRecoversOnce ==
    /\ [](/\ LoopAttemptCount = IF loop_pc = "recover" THEN 1 ELSE 0
          /\ loop_pc = "recover" =>
                /\ ToRecover(checks[idx])
                /\ \A a \in LoopAttempts : a.component = checks[idx].component)
    /\ [][/\ LoopAttemptCount' > LoopAttemptCount =>
               /\ loop_pc = "dispatch" /\ loop_pc' = "recover"
               /\ idx' = idx
               /\ ToRecover(checks[idx])
               /\ BagIn(Attempt(checks[idx].component, "loop", "action"), inflight')
          /\ (InCycle /\ InCycle' /\ idx' /= idx) =>
               /\ idx' = idx + 1
               /\ IF ToRecover(checks[idx])
                  THEN /\ loop_pc = "recover"
                       /\ AttemptReturned
                       /\ returned'.component = checks[idx].component
                  ELSE loop_pc /= "recover"
          /\ CycleCompleted => idx = Len(checks) + 1]_vars

\* two cycles have ended without fault: validation-service was found down in
\* the first and network in the second, both were alerted, and the only
\* recovery on record is the loop's for network
C15_Witness ==
    /\ loop_pc = "sleep"
    /\ cycle = 2
    /\ alerts = <<<<VALIDATION_SERVICE, DOWN>>, <<NETWORK, DOWN>>>>
    /\ component_status[VALIDATION_SERVICE] = DOWN
    /\ Len(recovery_attempts) = 1
    /\ recovery_attempts[1].component = NETWORK
    /\ inflight = EmptyBag

(* C15 as stated: in each cycle, cut short by a fault or not, no result that *)
(* is not healthy and auto-recoverable is left without its attempt_recovery  *)
(* when the loop goes to sleep.                                              *)
C15_EveryCycleRecovers ==
    [][(loop_pc = "process" /\ loop_pc' \in {"sleep", "error_sleep"}) =>
          \A i \in idx..Len(checks) : ~ToRecover(checks[i])]_vars

\* the monitor task exists and has neither ended nor been cancelled
LoopAlive == loop_pc \notin {"none", "finished", "cancelled"}

(* C16: a fault raised inside a cycle does not end the loop: the loop is     *)
(* left alive by every step but stop_monitoring and, asleep in its except    *)
(* branch, it begins another perform_health_checks unless monitoring is      *)
(* stopped (within the cycles explored).                                     *)
C16_FaultNotFatal ==
    /\ [][(LoopAlive /\ ~LoopAlive') => (monitoring /\ ~monitoring')]_vars
    /\ (loop_pc = "error_sleep" /\ cycle < MaxCycles)
          ~> (loop_pc = "gather" \/ ~monitoring)

\* the alert callback raised for network in the first cycle (alerted, status
\* not taken over, nothing recovered) and the second cycle's probes are running
C16_Witness ==
    /\ loop_pc = "gather"
    /\ cycle = 2
    /\ monitoring
    /\ alerts = <<<<NETWORK, DOWN>>>>
    /\ failed_checks = 1
    /\ component_status[NETWORK] = HEALTHY
    /\ recovery_attempts = <<>>
    /\ inflight = EmptyBag

(* C17: within one cycle every probe has completed before the first         *)
(* attempt_recovery of that cycle starts: perform_health_checks returns to   *)
(* the loop only when no probe is running, and while the loop processes the  *)
(* results, dispatches or awaits a recovery, no probe is running.            *)
C17_ProbesBeforeRecovery ==
    /\ []((InCycle \/ LoopAttemptCount > 0) => probing = {})
    /\ [][/\ CycleGathered => (probing = {} /\ Len(checks') = Len(ComponentOrder))
          /\ LoopAttemptCount' > LoopAttemptCount =>
                (probing = {} /\ probing' = {} /\ InCycle)]_vars

\* the probes of the first cycle are all done and the loop awaits the
\* recovery it dispatched for the network
C17_Witness ==
    /\ loop_pc = "recover"
    /\ cycle = 1
    /\ probing = {}
    /\ LoopAttemptCount = 1
    /\ BagIn(Attempt(NETWORK, "loop", "verify"), inflight)
    /\ checks[1].status = DOWN

(* C18: at most one monitor loop executes cycles: a loop task is created    *)
(* only by a start_monitoring that finds monitoring off, and then no task    *)
(* created earlier is alive; while monitoring is on no task is created and   *)
(* start_monitoring changes nothing; a start after a stop creates one task.  *)
C18_SingleLoop ==
    /\ [](monitoring <=> LoopAlive)
    /\ [][/\ (loop_pc' = "start" /\ loop_pc /= "start") =>
                (~LoopAlive /\ ~monitoring /\ monitoring')
          /\ (~monitoring /\ monitoring') => (~LoopAlive /\ loop_pc' = "start")
          /\ (monitoring /\ loop_pc = "start" /\ loop_pc' = "start") =>
                UNCHANGED <<checks, idx, cycle, probing>>]_vars

\* the first loop was stopped while its probes were running, monitoring was
\* started again and the new loop, the only one, runs its first probes
C18_Witness ==
    /\ monitoring
    /\ loop_pc = "gather"
    /\ cycle = 2
    /\ total_checks = 0
    /\ probing /= {}

(* C19: stop_monitoring can be called in the stopped state, before any      *)
(* start included, and leaves that state as it is; while monitoring is off   *)
(* no loop is alive and no step begins a cycle or changes total_checks or    *)
(* the recent-checks log.                                                    *)
C19_StopIdempotent ==
    /\ [](~monitoring =>
            /\ ~LoopAlive
            /\ probing = {}
            /\ ENABLED (StopMonitoring /\ UNCHANGED vars))
    /\ [][(~monitoring /\ ~monitoring') =>
             UNCHANGED <<total_checks, recent_checks, loopvars, probing>>]_vars

\* monitoring was stopped while the probes of the second cycle were running
\* and a manual recovery of validation-service is on record
C19_Witness ==
    /\ ~monitoring
    /\ loop_pc = "cancelled"
    /\ cycle = 2
    /\ total_checks = Len(ComponentOrder)
    /\ Len(recent_checks) = Len(ComponentOrder)
    /\ Len(recovery_attempts) = 1
    /\ recovery_attempts[1].component = VALIDATION_SERVICE

(* C20: for every assignment of statuses, is_auto_recoverable of the status  *)
(* returned is true if and only if every component that is down, degraded    *)
(* or recovering satisfies _is_auto_recoverable; it is true when all         *)
(* components are healthy and false whenever validation-service is not       *)
(* healthy.                                                                  *)
C20_AutoRecoverableFlag ==
    status_reply /= NoStatus =>
       /\ status_reply.components = component_status
       /\ status_reply.is_auto_recoverable <=>
             \A c \in PipelineComponent :
                 component_status[c] \in {DOWN, DEGRADED, RECOVERING}
                    => IsAutoRecoverable(c)
       /\ (\A c \in PipelineComponent : component_status[c] = HEALTHY)
             => status_reply.is_auto_recoverable
       /\ component_status[VALIDATION_SERVICE] /= HEALTHY
             => ~status_reply.is_auto_recoverable

\* a query answered not auto-recoverable with validation-service recovering
\* and every other component healthy
C20_Witness ==
    /\ status_reply /= NoStatus
    /\ ~status_reply.is_auto_recoverable
    /\ component_status[VALIDATION_SERVICE] = RECOVERING
    /\ \A c \in PipelineComponent \ {VALIDATION_SERVICE} :
          component_status[c] = HEALTHY

\* c is the only component whose status is not healthy
OnlyUnhealthy(c) ==
    /\ component_status[c] /= HEALTHY
    /\ \A d \in PipelineComponent \ {c} : component_status[d] = HEALTHY

(* C21: _is_auto_recoverable is false for validation-service and true for    *)
(* network, database, storage and queue, whatever the state of the monitor;  *)
(* a status query made while one component alone is not healthy returns      *)
(* that component's value as its flag.                                       *)
C21_AutoRecoverablePolicy ==
    /\ ~IsAutoRecoverable(VALIDATION_SERVICE)
    /\ \A c \in {NETWORK, DATABASE, STORAGE, QUEUE} : IsAutoRecoverable(c)
    /\ status_reply /= NoStatus =>
          \A c \in PipelineComponent :
              OnlyUnhealthy(c) =>
                 (status_reply.is_auto_recoverable
                     <=> c \in {NETWORK, DATABASE, STORAGE, QUEUE})

\* a query answered auto-recoverable while the queue alone is degraded
C21_Witness ==
    /\ status_reply /= NoStatus
    /\ OnlyUnhealthy(QUEUE)
    /\ component_status[QUEUE] = DEGRADED
    /\ status_reply.is_auto_recoverable

\* everything of the monitor a recovery could write
monitorstate == <<component_status, counters, logs, inflight, audit, returned>>

(* C22: a manual recovery request for a component whose status is healthy    *)
(* is answered with success, "already healthy", and leaves the status map,   *)
(* the four counters, both logs, the audit trail and the attempts in flight  *)
(* as they are; no request starts an attempt_recovery for a component whose  *)
(* status is healthy.                                                        *)
C22_HealthyRequestNoOp ==
    [][/\ (response' /= response /\ response'.message = "already healthy") =>
            /\ response'.code = 200
            /\ response'.status = "success"
            /\ response'.component \in PipelineComponent
            /\ component_status[response'.component] = HEALTHY
            /\ UNCHANGED monitorstate
       /\ \A c \in PipelineComponent :
             AttemptStarted(c) => component_status[c] /= HEALTHY]_vars

\* a request for the healthy storage answered while database is down, with
\* nothing attempted
C22_Witness ==
    /\ response = AlreadyHealthy(STORAGE)
    /\ component_status[STORAGE] = HEALTHY
    /\ component_status[DATABASE] = DOWN
    /\ recovery_attempts = <<>>
    /\ inflight = EmptyBag

(* C23: a manual recovery request naming no component is answered with the   *)
(* 400 invalid-component error.                                              *)
C23_InvalidNameIs400 ==
    response.message = "invalid component" => response.code = 400

(* C24: recent_failures of a status query is the last ten of the entries   *)
(* of the recent-checks log that are not healthy: with k such entries in the *)
(* log, the min(k, 10) most recent of them in log order, each reduced to     *)
(* component, timestamp and error.                                           *)
C24_LastTenFailures ==
    status_reply /= NoStatus =>
       LET failed == SelectSeq(recent_checks, IsFailure)
           last   == LastN(failed, 10)
       IN  status_reply.recent_failures =
              [i \in 1..Len(last) |->
                  [component |-> last[i].component,
                   timestamp |-> last[i].timestamp,
                   error     |-> last[i].error_message]]

(* C25: for every assignment of statuses, suggested_actions holds exactly   *)
(* one line for each component that is down, the line of that component and  *)
(* of no other, and nothing else; with no component down, whatever else is   *)
(* degraded or recovering, it is the single all-operational line.            *)
C25_SuggestedActions ==
    status_reply /= NoStatus =>
       LET lines == status_reply.suggested_actions
           down  == {c \in PipelineComponent : component_status[c] = DOWN}
       IN  /\ \A c, d \in PipelineComponent :
                 /\ SuggestionFor(c) /= AllOperational
                 /\ c /= d => SuggestionFor(c) /= SuggestionFor(d)
           /\ IF down = {} THEN lines = <<AllOperational>>
              ELSE /\ Len(lines) = Cardinality(down)
                   /\ \A c \in down :
                         \E i \in 1..Len(lines) : lines[i] = SuggestionFor(c)
                   /\ \A i \in 1..Len(lines) :
                         \E c \in down : lines[i] = SuggestionFor(c)

\* a status computed with two components down and a third one recovering
C25_Witness ==
    /\ status_reply /= NoStatus
    /\ component_status[NETWORK] = DOWN
    /\ component_status[STORAGE] = DOWN
    /\ component_status[QUEUE] = RECOVERING
    /\ Len(status_reply.suggested_actions) = 2

(* C26: get_editor_message picks its message by the overall status: every   *)
(* component healthy gives the operational message; a component recovering   *)
(* and none down or degraded gives the recovering notice, which carries the  *)
(* suggested actions; a component down gives the incident report, which      *)
(* lists every component that is not healthy with its status, shows the last *)
(* recent failures of the status, three at most, and says automatic recovery *)
(* in progress exactly when every component that is not healthy is           *)
(* auto-recoverable and manual intervention required otherwise, so manual    *)
(* with validation-service down and automatic with network alone down.       *)
C26_EditorMessageTiers ==
    [][editor_message' /= editor_message =>
         LET m         == editor_message'
             unhealthy == {c \in PipelineComponent : component_status[c] /= HEALTHY}
             down      == {c \in PipelineComponent : component_status[c] = DOWN}
             degraded  == {c \in PipelineComponent : component_status[c] = DEGRADED}
             failures  == RecentFailures(recent_checks)
             shown     == IF Len(failures) <= 3 THEN 0 ELSE Len(failures) - 3
         IN  /\ unhealthy = {} => m.headline = OPERATIONAL
             /\ (unhealthy /= {} /\ down = {} /\ degraded = {}) =>
                   /\ m.headline = RECOVERING_NOTICE
                   /\ m.actions = SuggestedActions(component_status)
             /\ down /= {} =>
                   /\ m.headline = INCIDENT
                   /\ Len(m.issues) = Cardinality(unhealthy)
                   /\ {m.issues[i] : i \in 1..Len(m.issues)} =
                         {[component |-> c, status |-> component_status[c]] :
                             c \in unhealthy}
                   /\ Len(m.recent_failures) <= 3
                   /\ Len(m.recent_failures) = Len(failures) - shown
                   /\ \A i \in 1..Len(m.recent_failures) :
                         /\ m.recent_failures[i].component =
                               failures[shown + i].component
                         /\ m.recent_failures[i].error = failures[shown + i].error
                   /\ m.next_steps \in {AutomaticRecovery, ManualIntervention}
                   /\ m.next_steps = AutomaticRecovery <=>
                         \A c \in unhealthy : c /= VALIDATION_SERVICE
                   /\ component_status[VALIDATION_SERVICE] = DOWN =>
                         m.next_steps = ManualIntervention
                   /\ unhealthy = {NETWORK} => m.next_steps = AutomaticRecovery
    ]_vars

\* an incident report on validation-service and network down, made when the
\* status has four recent failures
C26_Witness ==
    /\ editor_message.headline = INCIDENT
    /\ editor_message.next_steps = ManualIntervention
    /\ Len(editor_message.issues) = 2
    /\ Len(editor_message.recent_failures) = 3
    /\ Len(RecentFailures(recent_checks)) = 4
    /\ component_status[NETWORK] = DOWN
    /\ component_status[VALIDATION_SERVICE] = DOWN

(* C27: the uptime percentage of a status is (total_checks - failed_checks) *)
(* * 100 / total_checks when total_checks > 0 and 100 when it is 0; it is 95 *)
(* for 100 checks of which 5 failed, and it lies within 0..100 after any     *)
(* number of monitor-loop cycles.                                            *)
C27_UptimePercentage ==
    status_reply /= NoStatus =>
       LET u == status_reply.uptime_percentage
       IN  /\ u.den > 0
           /\ total_checks > 0 =>
                 u.num * total_checks = (total_checks - failed_checks) * 100 * u.den
           /\ total_checks = 0 => u.num = 100 * u.den
           /\ (total_checks = 100 /\ failed_checks = 5) => u.num = 95 * u.den
           /\ 0 <= u.num
           /\ u.num <= 100 * u.den

\* a status computed after twenty cycles, in five of which one probe failed
C27_Witness ==
    /\ status_reply /= NoStatus
    /\ cycle = 20
    /\ total_checks = 100
    /\ failed_checks = 5
    /\ status_reply.uptime_percentage.num = 95 * status_reply.uptime_percentage.den

(* C28: for every positive limit the history request returns at most limit  *)
(* events, ordered from the most recent to the oldest, and they are the      *)
(* limit most recent of all the entries of the recent-checks log and of the  *)
(* recovery log (all of them when there are fewer than limit): no entry left *)
(* out is more recent than an event returned. This also when the probes of   *)
(* a cycle finish at different times.                                        *)
C28_MostRecentEvents ==
    history_reply.limit > 0 =>
       LET ev       == history_reply.events
           returned_times == {ev[i].timestamp : i \in 1..Len(ev)}
           logged_times ==
               {recent_checks[i].timestamp : i \in 1..Len(recent_checks)}
                  \cup {recovery_attempts[i].timestamp :
                           i \in 1..Len(recovery_attempts)}
           logged   == Len(recent_checks) + Len(recovery_attempts)
       IN  /\ Len(ev) <= history_reply.limit
           /\ \A i, j \in 1..Len(ev) :
                 i < j => ev[i].timestamp >= ev[j].timestamp
           /\ Len(ev) = IF logged < history_reply.limit THEN logged
                        ELSE history_reply.limit
           /\ returned_times \subseteq logged_times
           /\ \A t \in logged_times \ returned_times :
                 \A u \in returned_times : t < u

(* C29: a new monitor has every component healthy and its four counters at  *)
(* 0, and in every state the status map has exactly the five components as   *)
(* its keys, each with one HealthStatus as its value.                        *)
C29_OneStatusEach ==
    /\ /\ \A c \in PipelineComponent : component_status[c] = HEALTHY
       /\ total_checks = 0
       /\ failed_checks = 0
       /\ successful_recoveries = 0
       /\ failed_recoveries = 0
    /\ [](/\ DOMAIN component_status = PipelineComponent
          /\ Cardinality(DOMAIN component_status) = 5
          /\ \A c \in PipelineComponent : component_status[c] \in HealthStatus)

\* after checks and recoveries: validation-service down, network being
\* recovered for the second time
C29_Witness ==
    /\ component_status[VALIDATION_SERVICE] = DOWN
    /\ component_status[NETWORK] = RECOVERING
    /\ failed_checks > 0
    /\ failed_recoveries > 0
    /\ DOMAIN component_status = PipelineComponent

(* C30: every attempt in the recovery log carries the action the static map *)
(* fixes for its component (network reconnect, validation-service            *)
(* restart-service, database reconnect, storage failover, queue clear-queue) *)
(* whether it succeeded or not, and manual-intervention for a component the  *)
(* map has no action for; an attempt with manual-intervention has failed,    *)
(* and the step that logs it leaves the component down and adds one to       *)
(* failed_recoveries and nothing to successful_recoveries.                   *)
C30_ActionPerComponent ==
    /\ [](\A i \in 1..Len(recovery_attempts) :
            LET r == recovery_attempts[i] IN
            /\ r.component = NETWORK => r.action = RECONNECT
            /\ r.component = VALIDATION_SERVICE => r.action = RESTART_SERVICE
            /\ r.component = DATABASE => r.action = RECONNECT
            /\ r.component = STORAGE => r.action = FAILOVER
            /\ r.component = QUEUE => r.action = CLEAR_QUEUE
            /\ r.component \notin PipelineComponent =>
                  r.action = MANUAL_INTERVENTION
            /\ r.action = MANUAL_INTERVENTION => ~r.success)
    /\ [][(/\ Len(recovery_attempts') = Len(recovery_attempts) + 1
           /\ recovery_attempts'[Len(recovery_attempts')].action
                 = MANUAL_INTERVENTION)
          => LET r == recovery_attempts'[Len(recovery_attempts')] IN
             /\ ~r.success
             /\ component_status'[r.component] = DOWN
             /\ failed_recoveries' = failed_recoveries + 1
             /\ successful_recoveries' = successful_recoveries]_vars

\* the queue was recovered with clear-queue, then the attempt on the value
\* without an action failed with manual-intervention
C30_Witness ==
    /\ Len(recovery_attempts) = 2
    /\ recovery_attempts[1].component = QUEUE
    /\ recovery_attempts[1].action = CLEAR_QUEUE
    /\ recovery_attempts[1].success
    /\ recovery_attempts[2].component = Unmapped
    /\ recovery_attempts[2].action = MANUAL_INTERVENTION
    /\ failed_recoveries = 1
    /\ component_status[Unmapped] = DOWN

(* C31: get_pipeline_status and get_editor_message are pure queries: a call  *)
(* of either, also while probes or a recovery are in flight, leaves the      *)
(* status map, the four counters, the recent-checks log and the recovery log *)
(* as they are, and a status call made while the status map is what the      *)
(* previous call saw returns the same overall status, component snapshot,    *)
(* suggested actions and is_auto_recoverable flag.                           *)
C31_PureQueries ==
    [][/\ (status_reply' /= status_reply \/ editor_message' /= editor_message)
          => UNCHANGED <<component_status, counters, logs>>
       /\ (/\ status_reply' /= status_reply
           /\ status_reply /= NoStatus
           /\ status_reply.components = component_status)
          => /\ status_reply'.overall_status = status_reply.overall_status
             /\ status_reply'.components = status_reply.components
             /\ status_reply'.suggested_actions = status_reply.suggested_actions
             /\ status_reply'.is_auto_recoverable
                   = status_reply.is_auto_recoverable]_vars

\* both queries answered while the recovery of network is in flight
C31_Witness ==
    /\ inflight /= EmptyBag
    /\ component_status[NETWORK] = RECOVERING
    /\ status_reply.overall_status = RECOVERING
    /\ status_reply.components = component_status
    /\ editor_message.headline = RECOVERING_NOTICE
    /\ status_reply.uptime_percentage = Uptime(total_checks, failed_checks)
    /\ failed_checks = 1

(* C32: the monitor loop never has two recovery attempts of its own in      *)
(* flight: it starts one only when none of its own is in flight, which       *)
(* within a cycle means after the attempt for the failing component before   *)
(* has ended, and it is asleep between two cycles only with none in flight,  *)
(* having gone to sleep past the last result of the cycle.                   *)
C32_LoopRecoveriesSequential ==
    /\ [](/\ LoopAttemptCount <= 1
          /\ loop_pc \in {"sleep", "error_sleep"} => LoopAttemptCount = 0)
    /\ [][/\ LoopAttemptCount' > LoopAttemptCount =>
               /\ LoopAttemptCount = 0
               /\ LoopAttemptCount' = 1
               /\ \A i \in 1..(idx - 1) :
                     ToRecover(checks[i]) =>
                        \E k \in 1..Len(recovery_attempts) :
                           recovery_attempts[k].component = checks[i].component
          /\ (loop_pc /= "sleep" /\ loop_pc' = "sleep") =>
               /\ idx > Len(checks)
               /\ LoopAttemptCount = 0
               /\ LoopAttemptCount' = 0]_vars

\* network and queue failed in the first cycle: the attempt for network has
\* ended and the loop awaits the attempt for queue
C32_Witness ==
    /\ cycle = 1
    /\ loop_pc = "recover"
    /\ checks[1].status = DOWN
    /\ checks[5].status = DOWN
    /\ idx = 5
    /\ Len(recovery_attempts) = 1
    /\ recovery_attempts[1].component = NETWORK
    /\ BagIn(Attempt(QUEUE, "loop", "action"), inflight)
    /\ LoopAttemptCount = 1

(* C33: when the loop starts the first attempt_recovery of a cycle, every   *)
(* non-healthy result of the cycle has been counted, alerted and written to  *)
(* the status map; so while an attempt of the loop is in flight, every       *)
(* component with a non-healthy result in the cycle is shown as not healthy. *)
C33_FailuresBeforeRecoveries ==
    /\ [](LoopAttemptCount > 0 =>
             \A i \in 1..Len(checks) :
                checks[i].status /= HEALTHY =>
                   component_status[checks[i].component] /= HEALTHY)
    /\ [][(LoopAttemptCount' > LoopAttemptCount) =>
             \A i \in 1..Len(checks) :
                checks[i].status /= HEALTHY =>
                   /\ component_status[checks[i].component] /= HEALTHY
                   /\ \E k \in 1..Len(alerts) :
                         alerts[k] = <<checks[i].component, checks[i].status>>]_vars

(* C34: attempt_recovery(c) changes the status of c only: the step that      *)
(* starts an attempt for c, the step in which its recovery action returns    *)
(* and the step that ends it leave the status of every other component as it *)
(* is, also while an attempt for another component is in flight, and the     *)
(* step that ends it leaves c healthy if its own record says success and     *)
(* down if not.                                                              *)
C34_OwnComponentOnly ==
    [][\A c \in PipelineComponent :
         LET Others == \A d \in PipelineComponent \ {c} :
                          component_status'[d] = component_status[d]
             Advanced == /\ BagIn(Attempt(c, "manual", "action"), inflight)
                         /\ inflight' =
                               (inflight (-) One(Attempt(c, "manual", "action")))
                                  (+) One(Attempt(c, "manual", "verify"))
         IN  /\ AttemptStarted(c) => Others /\ component_status'[c] = RECOVERING
             /\ Advanced => Others /\ component_status'[c] = component_status[c]
             /\ AttemptLeft(c) =>
                   LET r == recovery_attempts'[Len(recovery_attempts')] IN
                   /\ Others
                   /\ Len(recovery_attempts') = Len(recovery_attempts) + 1
                   /\ r.component = c
                   /\ component_status'[c] = IF r.success THEN HEALTHY ELSE DOWN]_vars

\* the attempts for network and for queue are in flight together, the one
\* for network past its recovery action; database is down and left alone
C34_Witness ==
    /\ BagIn(Attempt(NETWORK, "manual", "verify"), inflight)
    /\ BagIn(Attempt(QUEUE, "manual", "action"), inflight)
    /\ component_status[NETWORK] = RECOVERING
    /\ component_status[QUEUE] = RECOVERING
    /\ component_status[DATABASE] = DOWN

C36_HealthyOnlyByRecovery ==
    [][/\ (loop_pc = "process" /\ idx <= Len(checks)
                               /\ checks[idx].status = HEALTHY)
           => UNCHANGED component_status
       /\ \A c \in PipelineComponent :
             /\ (component_status[c] /= HEALTHY /\ component_status'[c] = HEALTHY)
                   => /\ AttemptLeft(c)
                      /\ AttemptReturned
                      /\ returned'.component = c
                      /\ returned'.success
             /\ (component_status[c] = DOWN /\ component_status'[c] /= DOWN)
                   => \/ AttemptStarted(c)
                      \/ (AttemptLeft(c) /\ AttemptReturned /\ returned'.success)
      ]_vars

\* the validation service, down since the first cycle, is still down after
\* the second cycle has processed its healthy result
C36_Witness ==
    /\ cycle = 2
    /\ loop_pc = "process"
    /\ idx > 2
    /\ Len(checks) >= 2
    /\ checks[2].component = VALIDATION_SERVICE
    /\ checks[2].status = HEALTHY
    /\ component_status[VALIDATION_SERVICE] = DOWN
    /\ recovery_attempts = <<>>

\* the number of records of the recovery log with the given success flag
Recorded(success) ==
    Cardinality({i \in 1..Len(recovery_attempts) :
                    recovery_attempts[i].success = success})

(* C37: in every reachable state the two recovery counters add up to the     *)
(* number of records in the recovery log, successful_recoveries is the       *)
(* number of records with success true and failed_recoveries the number with *)
(* success false, with attempts overlapping and with attempts cut off by     *)
(* stop_monitoring.                                                          *)
C37_CountersMatchLog ==
    /\ successful_recoveries + failed_recoveries = Len(recovery_attempts)
    /\ successful_recoveries = Recorded(TRUE)
    /\ failed_recoveries = Recorded(FALSE)

\* the loop's attempt for the network was cut off by stop_monitoring and left
\* no record, while a successful and a failed attempt are on record
C37_Witness ==
    /\ loop_pc = "cancelled"
    /\ component_status[NETWORK] = RECOVERING
    /\ InFlightFor(NETWORK) = 0
    /\ successful_recoveries = 1
    /\ failed_recoveries = 1
    /\ Len(recovery_attempts) = 2

\* this step is the alert callback raising for the result being processed
AlertFaulted == loop_pc = "process" /\ loop_pc' = "error_sleep"

(* C38: when the alert callback raises for a result that is not healthy, the *)
(* cycle is abandoned there.  The results of the cycle were counted in       *)
(* total_checks when they were gathered and this result is counted in        *)
(* failed_checks, but the status map is left as it is, no attempt_recovery   *)
(* is started and no result is left to process; while the loop sleeps in its *)
(* except branch it counts no failure, calls no alert, starts no recovery    *)
(* and writes no status, until it begins another cycle.                      *)
C38_AlertFaultAbandonsCycle ==
    [][/\ (loop_pc = "gather" /\ loop_pc' = "process")
            => total_checks' = total_checks + Len(checks')
       /\ AlertFaulted
            => /\ checks[idx].status /= HEALTHY
               /\ failed_checks' = failed_checks + 1
               /\ total_checks' = total_checks
               /\ UNCHANGED <<component_status, inflight, recovery_attempts>>
               /\ checks' = <<>>
       /\ loop_pc = "error_sleep"
            => /\ loop_pc' \in {"error_sleep", "gather", "finished", "cancelled"}
               /\ failed_checks' = failed_checks
               /\ alerts' = alerts
               /\ LoopAttempts' = {}
               /\ \A c \in PipelineComponent :
                     component_status'[c] /= component_status[c]
                        => AttemptStarted(c) \/ AttemptLeft(c)
      ]_vars

\* network and queue were both found down in the first cycle; the alert for
\* network raised, and the loop sleeps with network not marked down, queue
\* neither counted nor alerted, and no recovery made
C38_Witness ==
    /\ loop_pc = "error_sleep"
    /\ cycle = 1
    /\ Len(recent_checks) = 5
    /\ recent_checks[1].status = DOWN
    /\ recent_checks[5].status = DOWN
    /\ total_checks = 5
    /\ failed_checks = 1
    /\ alerts = <<<<NETWORK, DOWN>>>>
    /\ \A c \in PipelineComponent : component_status[c] = HEALTHY
    /\ recovery_attempts = <<>>
    /\ inflight = EmptyBag

(* C39: with a component degraded and none down the overall status is       *)
(* degraded, and get_editor_message then returns the incident report it      *)
(* returns for an overall status of down, listing the components that are    *)
(* not healthy, and neither the operational message nor the recovering       *)
(* notice; the suggested_actions of the status for the same state are the    *)
(* single all-operational line.                                              *)
C39_DegradedIncident ==
    LET degraded == /\ \E c \in PipelineComponent : component_status[c] = DEGRADED
                    /\ \A c \in PipelineComponent : component_status[c] /= DOWN
        unhealthy == {c \in PipelineComponent : component_status[c] /= HEALTHY}
    IN  degraded =>
          /\ status_reply /= NoStatus =>
                /\ status_reply.overall_status = DEGRADED
                /\ status_reply.suggested_actions = <<AllOperational>>
          /\ editor_message /= NoMessage =>
                /\ editor_message.headline = INCIDENT
                /\ editor_message.headline \notin {OPERATIONAL, RECOVERING_NOTICE}
                /\ editor_message.actions = <<>>
                /\ {editor_message.issues[i].component :
                       i \in 1..Len(editor_message.issues)} = unhealthy
                /\ editor_message.next_steps \in
                       {AutomaticRecovery, ManualIntervention}

\* the database degraded and the network recovering, nothing down: the
\* message is the incident report and the status suggests nothing
C39_Witness ==
    /\ component_status[DATABASE] = DEGRADED
    /\ component_status[NETWORK] = RECOVERING
    /\ \A c \in PipelineComponent : component_status[c] /= DOWN
    /\ editor_message.headline = INCIDENT
    /\ Len(editor_message.issues) = 2
    /\ status_reply.overall_status = DEGRADED
    /\ status_reply.suggested_actions = <<AllOperational>>

(* C40: with every recovery action returning or raising and monitoring      *)
(* never stopped, every attempt_recovery that has started completes: an      *)
(* attempt leaves flight only by returning its record, the attempts in       *)
(* flight for a component all end, a component that is recovering becomes    *)
(* healthy or down, and a loop that awaits a recovery reaches the sleep that *)
(* ends the cycle and then begins the next cycle (within the cycles          *)
(* explored).                                                                *)
C40_RecoveryCompletes ==
    /\ [][\A c \in PipelineComponent :
             AttemptLeft(c) => (AttemptReturned /\ returned'.component = c)]_vars
    /\ \A c \in PipelineComponent :
          /\ (InFlightFor(c) > 0) ~> (InFlightFor(c) = 0)
          /\ (component_status[c] = RECOVERING)
                ~> (component_status[c] \in {HEALTHY, DOWN})
    /\ (loop_pc = "recover") ~> (loop_pc \in {"sleep", "error_sleep"})
    /\ \A n \in 1..(MaxCycles - 1) :
          (loop_pc = "recover" /\ cycle = n) ~> (loop_pc = "gather" /\ cycle = n + 1)

\* the second cycle's probes are running after the loop's recovery of the
\* network in the first cycle failed and a manual request then recovered it
C40_Witness ==
    /\ loop_pc = "gather"
    /\ cycle = 2
    /\ Len(recovery_attempts) = 2
    /\ recovery_attempts[1].component = NETWORK
    /\ ~recovery_attempts[1].success
    /\ recovery_attempts[2].component = NETWORK
    /\ recovery_attempts[2].success
    /\ component_status[NETWORK] = HEALTHY
    /\ inflight = EmptyBag

=============================================================================
